---- MODULE Spec2Model ----
(***************************************************************************)
(* A model of v8's DateParser (dateparser.h): the character reader, the    *)
(* token type, the one-token-lookahead tokenizer, the three composers and  *)
(* the two-phase grammar driver.  The header is translated line by line;   *)
(* the bodies the header only declares (Scan, the keyword table, the three *)
(* Write methods, ParseES5DateTime and Parse) follow the design document.  *)
(***************************************************************************)
EXTENDS Integers, Sequences, FiniteSets, TLC

VARIABLES
  buffer_,   \* InputReader::buffer_, the characters of str (code points)
  in_,       \* InputReader: [index_, ch_]
  next_,     \* DateStringTokenizer::next_, the lookahead token
  day,       \* DayComposer: [comp_, index_, named_month_, is_iso_date_]
  time,      \* TimeComposer: [comp_, index_, hour_offset_]
  tz,        \* TimeZoneComposer: [sign_, hour_, minute_]
  token,     \* Parse: the token the permissive loop is looking at
  output,    \* the FixedArray of OUTPUT_SIZE slots
  pc,        \* where Parse is
  result,    \* what Parse returned, once pc = "done"
  seen_invalid, \* history: an Invalid token has been handed to Parse
  taken,     \* history: the tokens the tokenizer has delivered, in order
  offered,   \* history: the arguments of the calls made on an interface
  ret,       \* the value the last call of the interface returned
  other,     \* the objects of the other invocations of Parse under way
  printer    \* PrettyPrinter: [output_, size_, pos_]

vars == <<buffer_, in_, next_, day, time, tz, token, output, pc, result,
          seen_invalid, taken, offered, ret, other, printer>>

-----------------------------------------------------------------------------
(* Program constants                                                        *)

kMaxInt == 2147483647
kMinInt == -kMaxInt - 1
kNone == kMaxInt
kMaxSignificantDigits == 9

YEAR == 0
MONTH == 1
DAY == 2
HOUR == 3
MINUTE == 4
SECOND == 5
MILLISECOND == 6
UTC_OFFSET == 7
OUTPUT_SIZE == 8

INVALID == 0
MONTH_NAME == 1
TIME_ZONE_NAME == 2
TIME_SEPARATOR == 3
AM_PM == 4

kInvalidTokenTag == -6
kUnknownTokenTag == -5
kWhiteSpaceTag == -4
kNumberTag == -3
kSymbolTag == -2
kEndOfInputTag == -1
kKeywordTagStart == 0

kPrefixLength == 3
kTimeSize == 4
kDaySize == 3

\* The ASCII characters from space (32) to z (122), in code order (the double
\* quote, the backslash and the backtick by name).
Ascii ==
  <<
     " ", "!", "QUOTE", "#", "$", "%", "&", "'", "(", ")", "*", "+",
     ",", "-", ".", "/", "0", "1", "2", "3", "4", "5", "6", "7",
     "8", "9", ":", ";", "<", "=", ">", "?", "@", "A", "B", "C",
     "D", "E", "F", "G", "H", "I", "J", "K", "L", "M", "N", "O",
     "P", "Q", "R", "S", "T", "U", "V", "W", "X", "Y", "Z", "[",
     "BACKSLASH", "]", "^", "_", "BACKTICK", "a", "b", "c", "d", "e", "f", "g",
     "h", "i", "j", "k", "l", "m", "n", "o", "p", "q", "r", "s",
     "t", "u", "v", "w", "x", "y", "z"
  >>

\* The code of a character.
Ord == [c \in {Ascii[i] : i \in 1..Len(Ascii)} |->
          31 + (CHOOSE i \in 1..Len(Ascii) : Ascii[i] = c)]

\* The codes of a text given as a tuple of characters.
Codes(s) == [i \in 1..Len(s) |-> Ord[s[i]]]

-----------------------------------------------------------------------------
(* Range testing                                                            *)

\* a - b in 32-bit two's complement, for b >= 0.
Sub32(a, b) ==
  IF a >= kMinInt + b THEN a - b
  ELSE ((((a + kMaxInt) - b) + 1) + kMaxInt) + 1

\* A plausible slip: the casts to unsigned are left out.
UnsignedLeqSigned(a, b) == a <= b

\* static_cast<unsigned>(a) <= static_cast<unsigned>(b): the negative ints
\* are the large unsigned values.
UnsignedLeq(a, b) ==
  IF (a >= 0) = (b >= 0) THEN a <= b ELSE a >= 0

\* A plausible slip: the upper bound is not tested.
BetweenNoUpper(x, lo, hi) == Sub32(x, lo) >= 0

\* static_cast<unsigned>(x - lo) <= static_cast<unsigned>(hi - lo)
Between(x, lo, hi) == UnsignedLeq(Sub32(x, lo), Sub32(hi, lo))

-----------------------------------------------------------------------------
(* PrettyPrinter: the output buffer                                         *)

initial_size == 256
slack == 32

\* NewArray<char>(n): n bytes that hold whatever the allocator left there.
\* (A char array is a sequence: output_[i] of the code is its element
\* i + 1.)
NewArray(n, g) == SubSeq([i \in 1..n |-> g], 1, n)

\* The constructor: output_ = NULL, size_ = 0, pos_ = 0.
NewPrettyPrinter == [output_ |-> <<>>, size_ |-> 0, pos_ |-> 0]

\* Init(): the buffer is allocated at the first call; output_[0] = 0,
\* pos_ = 0.
PrinterInit(p, g) ==
  LET q == IF p.size_ = 0
           THEN [p EXCEPT !.output_ = NewArray(initial_size, g),
                          !.size_ = initial_size]
           ELSE p
  IN  [q EXCEPT !.output_ = <<0>> \o Tail(q.output_), !.pos_ = 0]

\* OS::VSNPrintF(Vector<char>(output_, size_) + pos_, format, arguments),
\* text being what format and arguments expand to: with enough space for
\* text and its terminating 0 they are stored from pos_ on and the length
\* of text is returned; otherwise what fits is stored, 0-terminated, and
\* the return is negative.
VSNPrintF(p, text) ==
  LET length == p.size_ - p.pos_
      stored == IF Len(text) < length THEN Len(text) ELSE length - 1
  IN  [n |-> IF Len(text) < length THEN Len(text) ELSE -1,
       output_ |-> IF length = 0 THEN p.output_
                   ELSE SubSeq(p.output_, 1, p.pos_)
                          \o SubSeq(text, 1, stored) \o <<0>>
                          \o SubSeq(p.output_, p.pos_ + stored + 2, p.size_)]

\* A plausible slip: the bytes written so far are not copied.
PrinterGrowNoCopy(p, g) ==
  [p EXCEPT !.output_ = NewArray(p.size_ + (p.size_ \div 2) + slack, g),
            !.size_ = p.size_ + (p.size_ \div 2) + slack]

\* new_size = size_ + (size_ >> 1) + slack; memcpy(new_output, output_,
\* pos_); output_ = new_output; size_ = new_size.
PrinterGrow(p, g) ==
  LET new_size == p.size_ + (p.size_ \div 2) + slack
  IN  [p EXCEPT !.output_ = SubSeq(p.output_, 1, p.pos_)
                              \o NewArray(new_size - p.pos_, g),
                !.size_ = new_size]

\* One turn of the loop of Print: done is whether Print returns.
PrinterPrintTurn(p, text, g) ==
  CHOOSE t \in
    {IF v.n >= 0
     THEN [done |-> TRUE,
           p |-> [p EXCEPT !.output_ = v.output_, !.pos_ = p.pos_ + v.n]]
     ELSE [done |-> FALSE,
           p |-> PrinterGrow([p EXCEPT !.output_ = v.output_], g)] :
       v \in {VSNPrintF(p, text)}} : TRUE

-----------------------------------------------------------------------------
(* InputReader                                                              *)

\* Next(): ch_ = index_ < length ? buffer_[index_] : 0; index_++.
\* (v is the value of r: the reader is evaluated once.)
ReaderNext(buf, r) ==
  CHOOSE n \in {[index_ |-> v.index_ + 1,
                 ch_    |-> IF v.index_ < Len(buf) THEN buf[v.index_ + 1]
                            ELSE 0] : v \in {r}} : TRUE

\* The constructor: index_(0), then Next().
InputReader(buf) == ReaderNext(buf, [index_ |-> 0, ch_ |-> 0])

Is(r, c) == r.ch_ = c
IsEnd(r) == r.ch_ = 0
IsDecimalDigit(c) == c >= Ord["0"] /\ c <= Ord["0"] + 9
IsAsciiDigit(r) == IsDecimalDigit(r.ch_)
IsAsciiAlphaOrAbove(r) == r.ch_ >= Ord["A"]
\* c | 0x20
AsciiAlphaToLower(c) == IF (c \div 32) % 2 = 0 THEN c + 32 ELSE c

\* The injected UnicodeCache::IsWhiteSpace, on the characters used here.
IsWhiteSpace(c) == c \in {9, 10, 11, 12, 13, 32, 160}

\* The loop of ReadUnsignedNumeral from its state (n, i, reader).
\* A plausible slip: the digits beyond the significant ones are not skipped.
RECURSIVE ReadUnsignedNumeralLoopStopsAtCap(_, _, _, _)
ReadUnsignedNumeralLoopStopsAtCap(buf, r, n, i) ==
  IF IsAsciiDigit(r) /\ i < kMaxSignificantDigits
  THEN ReadUnsignedNumeralLoopStopsAtCap(
         buf, ReaderNext(buf, r), n * 10 + r.ch_ - Ord["0"], i + 1)
  ELSE [n |-> n, in |-> r]

RECURSIVE ReadUnsignedNumeralLoop(_, _, _, _)
ReadUnsignedNumeralLoop(buf, r, n, i) ==
  IF IsAsciiDigit(r)
  THEN ReadUnsignedNumeralLoop(
         buf, ReaderNext(buf, r),
         IF i < kMaxSignificantDigits THEN n * 10 + r.ch_ - Ord["0"] ELSE n,
         i + 1)
  ELSE [n |-> n, in |-> r]

ReadUnsignedNumeral(buf, r) == ReadUnsignedNumeralLoop(buf, r, 0, 0)

\* A plausible slip: the length returned stops at the size of the prefix.
RECURSIVE ReadWordLoopCapsLength(_, _, _, _, _)
ReadWordLoopCapsLength(buf, r, len, prefix, prefix_size) ==
  IF IsAsciiAlphaOrAbove(r)
  THEN ReadWordLoopCapsLength(
         buf, ReaderNext(buf, r), len + 1,
         IF len < prefix_size
         THEN [prefix EXCEPT ![len] = AsciiAlphaToLower(r.ch_)]
         ELSE prefix,
         prefix_size)
  ELSE [len |-> IF len < prefix_size THEN len ELSE prefix_size,
        prefix |-> [i \in 0..(prefix_size - 1) |->
                      IF i >= len THEN 0 ELSE prefix[i]],
        in |-> r]

\* The first loop of ReadWord from its state (len, prefix, reader).
RECURSIVE ReadWordLoop(_, _, _, _, _)
ReadWordLoop(buf, r, len, prefix, prefix_size) ==
  IF IsAsciiAlphaOrAbove(r)
  THEN ReadWordLoop(
         buf, ReaderNext(buf, r), len + 1,
         IF len < prefix_size
         THEN [prefix EXCEPT ![len] = AsciiAlphaToLower(r.ch_)]
         ELSE prefix,
         prefix_size)
  ELSE [len |-> len,
        prefix |-> [i \in 0..(prefix_size - 1) |->
                      IF i >= len THEN 0 ELSE prefix[i]],
        in |-> r]

ReadWord(buf, r, prefix_size) ==
  ReadWordLoop(buf, r, 0, [i \in 0..(prefix_size - 1) |-> 0], prefix_size)

\* A plausible slip: the reader advances although the character differs.
SkipAdvancesAnyway(buf, r, c) ==
  [ok |-> r.ch_ = c, in |-> ReaderNext(buf, r)]

Skip(buf, r, c) ==
  IF r.ch_ = c THEN [ok |-> TRUE, in |-> ReaderNext(buf, r)]
  ELSE [ok |-> FALSE, in |-> r]

\* A plausible slip: the character is skipped but the skip is not reported.
SkipWhiteSpaceSaysNo(buf, r) ==
  [ok |-> FALSE, in |-> IF IsWhiteSpace(r.ch_) THEN ReaderNext(buf, r) ELSE r]

SkipWhiteSpace(buf, r) ==
  IF IsWhiteSpace(r.ch_) THEN [ok |-> TRUE, in |-> ReaderNext(buf, r)]
  ELSE [ok |-> FALSE, in |-> r]

\* The do-while of SkipParentheses from its state (balance, reader).
RECURSIVE SkipParenthesesLoop(_, _, _)
SkipParenthesesLoop(buf, r, balance) ==
  LET b == IF r.ch_ = Ord[")"] THEN balance - 1
           ELSE IF r.ch_ = Ord["("] THEN balance + 1 ELSE balance
      r2 == ReaderNext(buf, r)
  IN  IF b > 0 /\ r2.ch_ # 0 THEN SkipParenthesesLoop(buf, r2, b) ELSE r2

\* A plausible slip: the comment is reported skipped but not consumed.
SkipParenthesesStay(buf, r) == [ok |-> r.ch_ = Ord["("], in |-> r]

SkipParentheses(buf, r) ==
  IF r.ch_ # Ord["("] THEN [ok |-> FALSE, in |-> r]
  ELSE [ok |-> TRUE, in |-> SkipParenthesesLoop(buf, r, 0)]

-----------------------------------------------------------------------------
(* DateToken                                                                *)

DateToken(tag, length, value) ==
  [tag_ |-> tag, length_ |-> length, value_ |-> value]

\* A plausible slip: the Invalid test answers for no token.
IsInvalidNever(t) == FALSE

IsInvalid(t) == t.tag_ = kInvalidTokenTag
IsUnknown(t) == t.tag_ = kUnknownTokenTag
IsNumber(t) == t.tag_ = kNumberTag
IsSymbol(t) == t.tag_ = kSymbolTag
IsWhiteSpaceToken(t) == t.tag_ = kWhiteSpaceTag
IsEndOfInput(t) == t.tag_ = kEndOfInputTag
IsKeyword(t) == t.tag_ >= kKeywordTagStart
IsSymbolOf(t, symbol) == IsSymbol(t) /\ t.value_ = symbol
IsKeywordType(t, tag) == t.tag_ = tag
IsFixedLengthNumber(t, length) == IsNumber(t) /\ t.length_ = length
TokenIsAsciiSign(t) ==
  t.tag_ = kSymbolTag /\ (t.value_ = Ord["-"] \/ t.value_ = Ord["+"])
ascii_sign(t) == 44 - t.value_
IsKeywordZ(t) ==
  IsKeywordType(t, TIME_ZONE_NAME) /\ t.length_ = 1 /\ t.value_ = 0

Keyword(tag, value, length) == DateToken(tag, length, value)
Number(value, length) == DateToken(kNumberTag, length, value)
Symbol(symbol) == DateToken(kSymbolTag, 1, symbol)
EndOfInput == DateToken(kEndOfInputTag, 0, -1)
WhiteSpace(length) == DateToken(kWhiteSpaceTag, length, -1)
Unknown == DateToken(kUnknownTokenTag, 1, -1)
Invalid == DateToken(kInvalidTokenTag, 0, -1)

-----------------------------------------------------------------------------
(* KeywordTable                                                             *)

\* A table row: the prefix zero-padded to kPrefixLength, the type, the value.
Entry(word, type, value) ==
  [pre |-> [i \in 0..(kPrefixLength - 1) |->
              IF i < Len(word) THEN Ord[word[i + 1]] ELSE 0],
   type |-> type, value |-> value]

\* The fixed table: 12 months, the weekdays (which fill no field), the zone
\* abbreviations, am and pm, and the time separator.
array ==
  << Entry(<<"j", "a", "n">>, MONTH_NAME, 1),
     Entry(<<"f", "e", "b">>, MONTH_NAME, 2),
     Entry(<<"m", "a", "r">>, MONTH_NAME, 3),
     Entry(<<"a", "p", "r">>, MONTH_NAME, 4),
     Entry(<<"m", "a", "y">>, MONTH_NAME, 5),
     Entry(<<"j", "u", "n">>, MONTH_NAME, 6),
     Entry(<<"j", "u", "l">>, MONTH_NAME, 7),
     Entry(<<"a", "u", "g">>, MONTH_NAME, 8),
     Entry(<<"s", "e", "p">>, MONTH_NAME, 9),
     Entry(<<"o", "c", "t">>, MONTH_NAME, 10),
     Entry(<<"n", "o", "v">>, MONTH_NAME, 11),
     Entry(<<"d", "e", "c">>, MONTH_NAME, 12),
     Entry(<<"m", "o", "n">>, INVALID, 0),
     Entry(<<"t", "u", "e">>, INVALID, 0),
     Entry(<<"w", "e", "d">>, INVALID, 0),
     Entry(<<"t", "h", "u">>, INVALID, 0),
     Entry(<<"f", "r", "i">>, INVALID, 0),
     Entry(<<"s", "a", "t">>, INVALID, 0),
     Entry(<<"s", "u", "n">>, INVALID, 0),
     Entry(<<"a", "m">>, AM_PM, 0),
     Entry(<<"p", "m">>, AM_PM, 12),
     Entry(<<"u", "t">>, TIME_ZONE_NAME, 0),
     Entry(<<"u", "t", "c">>, TIME_ZONE_NAME, 0),
     Entry(<<"z">>, TIME_ZONE_NAME, 0),
     Entry(<<"g", "m", "t">>, TIME_ZONE_NAME, 0),
     Entry(<<"e", "s", "t">>, TIME_ZONE_NAME, -5),
     Entry(<<"p", "s", "t">>, TIME_ZONE_NAME, -8),
     Entry(<<"t">>, TIME_SEPARATOR, 0) >>

\* Lookup(pre, len): the index of the row with this prefix, or 0 (not found).
\* The word length takes no part in the match.
Lookup(pre, len) ==
  IF \E i \in 1..Len(array) : array[i].pre = pre
  THEN CHOOSE i \in 1..Len(array) : array[i].pre = pre
  ELSE 0

GetType(i) == array[i].type
GetValue(i) == array[i].value

-----------------------------------------------------------------------------
(* DateStringTokenizer                                                      *)

\* The whitespace run at the cursor: SkipWhiteSpace until it skips nothing.
RECURSIVE SkipWhiteSpaceRun(_, _)
SkipWhiteSpaceRun(buf, r) ==
  LET s == SkipWhiteSpace(buf, r)
  IN  IF s.ok THEN SkipWhiteSpaceRun(buf, s.in) ELSE r

\* Scan() with the reader at r.
ScanAt(buf, r) ==
  LET pre_pos == r.index_ IN
  IF IsEnd(r) THEN [tok |-> EndOfInput, in |-> r]
  ELSE IF IsAsciiDigit(r) THEN
    LET n == ReadUnsignedNumeral(buf, r)
    IN  [tok |-> Number(n.n, n.in.index_ - pre_pos), in |-> n.in]
  ELSE IF SkipWhiteSpace(buf, r).ok THEN
    LET w == SkipWhiteSpaceRun(buf, r)
    IN  [tok |-> WhiteSpace(w.index_ - pre_pos), in |-> w]
  ELSE IF IsAsciiAlphaOrAbove(r) THEN
    LET w == ReadWord(buf, r, kPrefixLength)
        index == Lookup(w.prefix, w.len)
    IN  [tok |-> IF index = 0 THEN Unknown
                 ELSE Keyword(GetType(index), GetValue(index), w.len),
         in |-> w.in]
  ELSE IF SkipParentheses(buf, r).ok THEN
    [tok |-> Unknown, in |-> SkipParentheses(buf, r).in]
  ELSE [tok |-> Symbol(r.ch_), in |-> ReaderNext(buf, r)]

\* A plausible slip: the end of the input is stepped over as a character is.
ScanStepsOverEnd(buf, r) ==
  IF IsEnd(r) THEN [tok |-> EndOfInput, in |-> ReaderNext(buf, r)]
  ELSE ScanAt(buf, r)

\* Scan(): the token at the cursor and the reader after it.
Scan(buf, r) == CHOOSE s \in {ScanAt(buf, v) : v \in {r}} : TRUE

\* The tokenizer as a value: the reader it points to and its lookahead.
Tokenizer(r, t) == [in_ |-> r, next_ |-> t]

\* next_ = Scan(): the tokenizer after a scan with the reader at r.
Scanned(buf, r) ==
  CHOOSE t \in {Tokenizer(s.in, s.tok) : s \in {Scan(buf, r)}} : TRUE

\* The constructor: in_(in), next_(Scan()).
DateStringTokenizer(buf, r) == Scanned(buf, r)

\* A plausible slip: the lookahead is returned but not replaced.
TokenizerNextNoScan(buf, sc) == [result |-> sc.next_, sc |-> sc]

\* Next(): result = next_; next_ = Scan(); return result.
TokenizerNext(buf, sc) ==
  CHOOSE n \in {[result |-> v.next_, sc |-> Scanned(buf, v.in_)] :
                  v \in {sc}} : TRUE

Peek(sc) == sc.next_

\* A plausible slip: the symbol is reported skipped but stays the lookahead.
SkipSymbolKeep(buf, sc, symbol) ==
  [ok |-> IsSymbolOf(sc.next_, symbol), sc |-> sc]

SkipSymbol(buf, sc, symbol) ==
  CHOOSE n \in {IF IsSymbolOf(v.next_, symbol)
                THEN [ok |-> TRUE, sc |-> Scanned(buf, v.in_)]
                ELSE [ok |-> FALSE, sc |-> v] : v \in {sc}} : TRUE

-----------------------------------------------------------------------------
(* The output array                                                         *)

Smi(n) == [tag |-> "smi", v |-> n]
Null == [tag |-> "null", v |-> 0]
\* What a slot holds before Parse writes it.
Undefined == [tag |-> "undefined", v |-> 0]
NewOutput == [i \in 0..(OUTPUT_SIZE - 1) |-> Undefined]

-----------------------------------------------------------------------------
(* TimeComposer: the static range predicates                                *)

\* A plausible slip: minute 60 is accepted.
IsMinuteTo60(x) == Between(x, 0, 60)

\* A plausible slip: the 12-hour test is the 24-hour test.
IsHour12As24(x) == Between(x, 0, 23)

IsMinute(x) == Between(x, 0, 59)
IsHour(x) == Between(x, 0, 23)
IsSecond(x) == Between(x, 0, 59)
IsHour12(x) == Between(x, 0, 12)
IsMillisecond(x) == Between(x, 0, 999)

-----------------------------------------------------------------------------
(* TimeZoneComposer                                                         *)

\* A plausible slip: the hour starts at 0 instead of kNone.
NewTimeZoneComposerZeroHour == [sign_ |-> kNone, hour_ |-> 0, minute_ |-> kNone]

NewTimeZoneComposer == [sign_ |-> kNone, hour_ |-> kNone, minute_ |-> kNone]

\* A plausible slip: the sign of the offset is lost.
TzSetSignLost(z, sign) == [z EXCEPT !.sign_ = 1]

TzSet(z, offset_in_hours) ==
  LET sign == IF offset_in_hours < 0 THEN -1 ELSE 1
  IN  [sign_ |-> sign, hour_ |-> offset_in_hours * sign, minute_ |-> 0]
TzSetSign(z, sign) == [z EXCEPT !.sign_ = IF sign < 0 THEN -1 ELSE 1]
TzSetAbsoluteHour(z, hour) == [z EXCEPT !.hour_ = hour]
TzSetAbsoluteMinute(z, minute) == [z EXCEPT !.minute_ = minute]
TzIsExpecting(z, n) ==
  z.hour_ # kNone /\ z.minute_ = kNone /\ IsMinute(n)
TzIsUTC(z) == z.hour_ = 0 /\ z.minute_ = 0
TzIsEmpty(z) == z.hour_ = kNone

\* Write: the slot stays unset (null) for an empty composer, and is
\* sign * (hour*3600 + minute*60) otherwise; a minute never given counts 0.
TzWrite(z, out) ==
  IF TzIsEmpty(z) THEN [ok |-> TRUE, out |-> [out EXCEPT ![UTC_OFFSET] = Null]]
  ELSE
    LET minute == IF z.minute_ = kNone THEN 0 ELSE z.minute_
        total_seconds == z.sign_ * (z.hour_ * 3600 + minute * 60)
    IN  [ok |-> TRUE, out |-> [out EXCEPT ![UTC_OFFSET] = Smi(total_seconds)]]

-----------------------------------------------------------------------------
(* TimeComposer                                                             *)

\* comp_ is not initialised by the constructor; no slot is read before Add,
\* AddFinal or Write has stored into it.
NewTimeComposer ==
  [comp_ |-> [i \in 0..(kTimeSize - 1) |-> 0], index_ |-> 0,
   hour_offset_ |-> kNone]

\* A plausible slip: the emptiness test is inverted.
TimeIsEmptyInverted(t) == t.index_ # 0

TimeIsEmpty(t) == t.index_ = 0
\* A plausible slip: a full composer still expects a millisecond.
TimeIsExpectingWhenFull(t, n) ==
  \/ (t.index_ = 1 /\ IsMinute(n))
  \/ (t.index_ = 2 /\ IsSecond(n))
  \/ (t.index_ >= 3 /\ IsMillisecond(n))

TimeIsExpecting(t, n) ==
  \/ (t.index_ = 1 /\ IsMinute(n))
  \/ (t.index_ = 2 /\ IsSecond(n))
  \/ (t.index_ = 3 /\ IsMillisecond(n))
TimeAdd(t, n) ==
  IF t.index_ < kTimeSize
  THEN [ok |-> TRUE,
        c |-> [t EXCEPT !.comp_[t.index_] = n, !.index_ = t.index_ + 1]]
  ELSE [ok |-> FALSE, c |-> t]

\* while (index_ < kSize) comp_[index_++] = 0
TimeZeroFill(t) ==
  [t EXCEPT !.comp_ = [i \in 0..(kTimeSize - 1) |->
                         IF i >= t.index_ THEN 0 ELSE t.comp_[i]],
            !.index_ = IF t.index_ < kTimeSize THEN kTimeSize ELSE t.index_]

\* A plausible slip: the slots after the final number are not zeroed.
TimeAddFinalNoFill(t, n) == TimeAdd(t, n)

TimeAddFinal(t, n) ==
  IF ~TimeAdd(t, n).ok THEN [ok |-> FALSE, c |-> t]
  ELSE [ok |-> TRUE, c |-> TimeZeroFill(TimeAdd(t, n).c)]
SetHourOffset(t, n) == [t EXCEPT !.hour_offset_ = n]

\* Write: unfilled slots are 0; with an am/pm offset the hour must be a
\* 12-hour value and becomes hour % 12 + offset; then every field is
\* validated against its range.
TimeWrite(t, out) ==
  LET f == TimeZeroFill(t)
      raw == f.comp_[0]
      hour == IF t.hour_offset_ # kNone THEN (raw % 12) + t.hour_offset_ ELSE raw
      minute == f.comp_[1]
      second == f.comp_[2]
      millisecond == f.comp_[3]
  IN  IF t.hour_offset_ # kNone /\ ~IsHour12(raw) THEN [ok |-> FALSE, out |-> out]
      ELSE IF ~IsHour(hour) \/ ~IsMinute(minute) \/ ~IsSecond(second)
               \/ ~IsMillisecond(millisecond)
      THEN [ok |-> FALSE, out |-> out]
      ELSE [ok |-> TRUE,
            out |-> [out EXCEPT ![HOUR] = Smi(hour), ![MINUTE] = Smi(minute),
                                ![SECOND] = Smi(second),
                                ![MILLISECOND] = Smi(millisecond)]]

-----------------------------------------------------------------------------
(* DayComposer                                                              *)

\* comp_ is not initialised by the constructor; no slot is read before Add
\* has stored into it.
NewDayComposer ==
  [comp_ |-> [i \in 0..(kDaySize - 1) |-> 0], index_ |-> 0,
   named_month_ |-> kNone, is_iso_date_ |-> FALSE]

\* A plausible slip: the index is not advanced, so every number lands in
\* slot 0.
DayAddNoAdvance(d, n) ==
  IF d.index_ < kDaySize
  THEN [ok |-> TRUE, c |-> [d EXCEPT !.comp_[0] = n, !.index_ = d.index_ + 1]]
  ELSE [ok |-> FALSE, c |-> d]

DayIsEmpty(d) == d.index_ = 0

\* A plausible slip: a number offered to a full composer replaces the last.
DayAddReplacesLast(d, n) ==
  IF d.index_ < kDaySize
  THEN [ok |-> TRUE,
        c |-> [d EXCEPT !.comp_[d.index_] = n, !.index_ = d.index_ + 1]]
  ELSE [ok |-> FALSE, c |-> [d EXCEPT !.comp_[kDaySize - 1] = n]]

DayAdd(d, n) ==
  IF d.index_ < kDaySize
  THEN [ok |-> TRUE,
        c |-> [d EXCEPT !.comp_[d.index_] = n, !.index_ = d.index_ + 1]]
  ELSE [ok |-> FALSE, c |-> d]
SetNamedMonth(d, n) == [d EXCEPT !.named_month_ = n]
set_iso_date(d) == [d EXCEPT !.is_iso_date_ = TRUE]

\* A plausible slip: day 0 is accepted.
IsDayFromZero(x) == Between(x, 0, 31)

\* A plausible slip: month 0 is accepted.
IsMonthFromZero(x) == Between(x, 0, 12)

IsMonth(x) == Between(x, 1, 12)
IsDay(x) == Between(x, 1, 31)

\* The pivot of the two-digit year window: below it 20xx, from it on 19xx.
kYearPivot == 50

\* A two-digit year windowed into its century.
WindowYear(year) ==
  IF Between(year, 0, kYearPivot - 1) THEN year + 2000
  ELSE IF Between(year, kYearPivot, 99) THEN year + 1900
  ELSE year

\* Write: resolve the recorded numbers into year, month and day.
\*  - a named month: the two numbers are day and year, the first in [1,31]
\*    being the day;
\*  - the ISO flag: year, month, day in that order;
\*  - three bare numbers: day-first when the first is more than 12, else
\*    month-first, the year windowed;
\*  - anything else resolves no date.
DayResolve(d) ==
  IF d.named_month_ # kNone THEN
    IF d.index_ # 2 THEN [ok |-> FALSE, year |-> 0, month |-> 0, day |-> 0]
    ELSE IF IsDay(d.comp_[0])
    THEN [ok |-> TRUE, year |-> d.comp_[1], month |-> d.named_month_,
          day |-> d.comp_[0]]
    ELSE IF IsDay(d.comp_[1])
    THEN [ok |-> TRUE, year |-> d.comp_[0], month |-> d.named_month_,
          day |-> d.comp_[1]]
    ELSE [ok |-> FALSE, year |-> 0, month |-> 0, day |-> 0]
  ELSE IF d.index_ # kDaySize
  THEN [ok |-> FALSE, year |-> 0, month |-> 0, day |-> 0]
  ELSE IF d.is_iso_date_
  THEN [ok |-> TRUE, year |-> d.comp_[0], month |-> d.comp_[1],
        day |-> d.comp_[2]]
  ELSE IF d.comp_[0] > 12
  THEN [ok |-> TRUE, year |-> WindowYear(d.comp_[2]), month |-> d.comp_[1],
        day |-> d.comp_[0]]
  ELSE [ok |-> TRUE, year |-> WindowYear(d.comp_[2]), month |-> d.comp_[0],
        day |-> d.comp_[1]]

DayWrite(d, out) ==
  LET r == DayResolve(d)
  IN  IF ~r.ok \/ ~IsMonth(r.month) \/ ~IsDay(r.day)
      THEN [ok |-> FALSE, out |-> out]
      ELSE [ok |-> TRUE,
            out |-> [out EXCEPT ![YEAR] = Smi(r.year),
                                ![MONTH] = Smi(r.month - 1),
                                ![DAY] = Smi(r.day)]]

-----------------------------------------------------------------------------
(* The inputs Parse is run on                                               *)

\* The largest two-digit date field (month, day, first numbers) tried.
MaxField == 32
\* The largest hour tried.
MaxHourField == 25

\* n in decimal, in exactly w digits.
RECURSIVE Digits(_, _)
Digits(n, w) ==
  IF w = 0 THEN <<>> ELSE Append(Digits(n \div 10, w - 1), Ord["0"] + (n % 10))

\* n in decimal, without leading zeros.
RECURSIVE Decimal(_)
Decimal(n) ==
  IF n < 10 THEN <<Ord["0"] + n>>
  ELSE Append(Decimal(n \div 10), Ord["0"] + (n % 10))

YearSamples == {0, 12, 2013}
FieldSamples == {0, 1, 12, 13, 25, 31, 32}
MinuteSamples == {0, 30, 59, 60}
LegacyYearSamples == {13, 70, 2013}
MonthWords == {<<"D", "e", "c">>, <<"f", "e", "b">>,
               <<"D", "e", "c", "e", "m", "b", "e", "r">>}

IsoDate(y, m, d) ==
  Digits(y, 4) \o Codes(<<"-">>) \o Digits(m, 2) \o Codes(<<"-">>)
    \o Digits(d, 2)
IsoTime(h, m, sec) ==
  Codes(<<"T">>) \o Digits(h, 2) \o Codes(<<":">>) \o Digits(m, 2)
    \o Codes(<<":">>) \o Digits(sec, 2)
SignChar(sign) == IF sign < 0 THEN Codes(<<"-">>) ELSE Codes(<<"+">>)
ZoneColon(sign, h, m) ==
  SignChar(sign) \o Digits(h, 2) \o Codes(<<":">>) \o Digits(m, 2)
ZoneCompact(sign, h, m) == SignChar(sign) \o Digits(h, 2) \o Digits(m, 2)
Zones ==
  {<<>>, Codes(<<"Z">>), Codes(<<"z">>)}
    \cup {ZoneColon(sg, h, m) : sg \in {-1, 1}, h \in {0, 5, 23}, m \in {0, 30}}
    \cup {ZoneCompact(sg, h, m) : sg \in {-1, 1}, h \in {0, 8}, m \in {0, 45}}

\* YYYY-MM-DD, in and out of range.
IsoDateInputs ==
  {IsoDate(y, m, d) : y \in YearSamples, m \in 0..13, d \in 0..MaxField}
    \cup {IsoDate(2013, 13, 45)}

\* YYYY-MM-DDTHH:mm:ss with a zone, in and out of range.
IsoDateTimeInputs ==
  {IsoDate(2013, 12, 25) \o IsoTime(h, m, sec) \o z :
     h \in {0, 10, 23, 24}, m \in MinuteSamples, sec \in {0, 60},
     z \in {<<>>, Codes(<<"Z">>)}}
    \cup {IsoDate(2013, 12, 25) \o IsoTime(10, 30, 0) \o z : z \in Zones}
    \cup {IsoDate(2013, 12, 25) \o IsoTime(10, 30, 0) \o Codes(<<".">>)
            \o Digits(ms, 3) \o z :
            ms \in {0, 123, 999}, z \in {<<>>, Codes(<<"Z">>)}}

\* What may follow the T of a date-time that is not a time and a zone.
BrokenTails ==
  {<<>>, Codes(<<"1", "0">>), Codes(<<"1", "0", ":", "3", "0">>),
   Codes(<<"1", ":", "3", "0", ":", "0", "0">>),
   Codes(<<"1", "0", ":", "3", "0", ":", "0", "0", "X">>),
   Codes(<<"1", "0", ":", "3", "0", ":", "0", "0", "+", "5">>),
   Codes(<<"1", "0", ":", "3", "0", ":", "0", "0", "Z", " ", "1">>),
   Codes(<<"1", "0", ":", "3", "0", ":", "0", "0", ".", "X">>),
   Codes(<<"x", "x">>)}
BrokenIsoInputs ==
  {IsoDate(y, m, d) \o Codes(<<"T">>) \o t :
     y \in {12, 2013}, m \in {12, 25}, d \in {13, 25}, t \in BrokenTails}

\* Inputs the strict phase leaves early.
PartialIsoInputs ==
  {Digits(2013, 4), Digits(2013, 4) \o Codes(<<"-">>) \o Digits(12, 2),
   Digits(2013, 4) \o Codes(<<"/">>) \o Digits(12, 2) \o Codes(<<"/">>)
     \o Digits(25, 2),
   IsoDate(2013, 12, 25) \o Codes(<<" ">>) \o Digits(10, 2) \o Codes(<<":">>)
     \o Digits(30, 2),
   IsoDate(2013, 1, 2) \o Codes(<<"-">>) \o Digits(3, 2),
   Digits(2013, 4) \o Codes(<<"-", "1", "-", "2", "5">>),
   Digits(2013, 4) \o Codes(<<"-">>) \o Digits(123, 3) \o Codes(<<"-">>)
     \o Digits(1, 2),
   Digits(12, 4) \o Codes(<<"-">>) \o Digits(25, 2) \o Codes(<<"-">>)
     \o Digits(2013, 4),
   Digits(2013, 4) \o Codes(<<" ", "(", "c", " ", "(", "n", ")", ")", " ">>)
     \o Codes(<<"-">>) \o Digits(12, 2) \o Codes(<<"-">>) \o Digits(25, 2),
   <<>>}

\* a/b/c: three bare numbers.
NumericInputs ==
  {Decimal(a) \o Codes(<<"/">>) \o Decimal(b) \o Codes(<<"/">>) \o Decimal(c) :
     a \in 0..MaxField, b \in FieldSamples, c \in LegacyYearSamples}
    \cup {Decimal(1) \o Codes(<<"/">>) \o Decimal(2) \o Codes(<<"/">>)
            \o Decimal(3) \o Codes(<<"/">>) \o Decimal(4),
          Decimal(12) \o Codes(<<"/">>) \o Decimal(25),
          Decimal(25)}

\* A month word and two numbers, the word before, between or after them.
NamedMonthNumbers == {0, 1, 25, 31, 32, 2013}
NamedMonthInputs ==
  {w \o Codes(<<" ">>) \o Decimal(a) \o Codes(<<",", " ">>) \o Decimal(b) :
     w \in {Codes(x) : x \in MonthWords},
     a \in NamedMonthNumbers, b \in NamedMonthNumbers}
    \cup
  {Decimal(a) \o Codes(<<" ">>) \o w \o Codes(<<" ">>) \o Decimal(b) :
     w \in {Codes(x) : x \in MonthWords},
     a \in NamedMonthNumbers, b \in NamedMonthNumbers}
    \cup
  {Decimal(a) \o Codes(<<" ">>) \o Decimal(b) \o Codes(<<" ">>) \o w :
     w \in {Codes(x) : x \in MonthWords},
     a \in NamedMonthNumbers, b \in NamedMonthNumbers}
    \cup
  {Codes(<<"D", "e", "c", " ", "2", "5">>),
   Codes(<<"D", "e", "c", " ", "2", "5", " ", "2", "0", "1", "3", " ", "7">>),
   Codes(<<"M", "o", "n", " ", "D", "e", "c", " ", "2", "5", " ", "2", "0",
           "1", "3">>)}

\* What may follow the time of a legacy date.
TimeSuffixes ==
  {<<>>, Codes(<<" ", "A", "M">>), Codes(<<" ", "P", "M">>),
   Codes(<<" ", "p", "m">>)}
LegacyZones ==
  {Codes(<<" ", "G", "M", "T">>), Codes(<<" ", "U", "T", "C">>),
   Codes(<<" ", "E", "S", "T">>), Codes(<<" ", "+", "0", "5", "3", "0">>),
   Codes(<<" ", "-", "0", "8", ":", "0", "0">>),
   Codes(<<" ", "+", "0", "5", ":", "3", "0">>),
   Codes(<<" ", "-", " ", "7">>)}
LegacyDate == Codes(<<"D", "e", "c", " ", "2", "5", ",", " ", "2", "0", "1",
                      "3", " ">>)

\* A legacy date with a time, with and without am/pm and a zone.
LegacyTimeInputs ==
  {LegacyDate \o Decimal(h) \o Codes(<<":">>) \o Digits(m, 2) \o Codes(<<":">>)
     \o Digits(sec, 2) \o x :
     h \in 0..MaxHourField, m \in {30}, sec \in {0}, x \in TimeSuffixes}
    \cup
  {LegacyDate \o Decimal(10) \o Codes(<<":">>) \o Digits(m, 2)
     \o Codes(<<":">>) \o Digits(sec, 2) \o x :
     m \in MinuteSamples, sec \in MinuteSamples,
     x \in {<<>>, Codes(<<" ", "P", "M">>)}}
    \cup
  {LegacyDate \o Decimal(h) \o Codes(<<":">>) \o Digits(30, 2) \o x :
     h \in {0, 10, 12, 13}, x \in TimeSuffixes \cup LegacyZones}
    \cup
  {LegacyDate \o Decimal(10) \o Codes(<<":">>) \o Digits(30, 2)
     \o Codes(<<":">>) \o Digits(0, 2) \o Codes(<<":">>) \o Digits(1, 2)
     \o Codes(<<":">>) \o Digits(2, 2) \o Codes(<<":">>)}

\* An am/pm word with no hour recorded.
AmPmNoHourInputs ==
  {Codes(<<"P", "M", " ">>) \o LegacyDate,
   LegacyDate \o Codes(<<"P", "M">>),
   LegacyDate \o Codes(<<"a", "m", " ", "1", "0", ":", "3", "0">>),
   Codes(<<"1", "2", "/", "2", "5", "/", "2", "0", "1", "3", " ", "a", "m">>),
   Codes(<<"1", "0", "p", "m">>)}

\* Dates with parenthesised comments: nested, holding numbers, unclosed.
CommentInputs ==
  {Codes(<<"D", "e", "c", " ", "2", "5", " ", "(", "1", "3", ":", "9", "9",
           " ", "(", "7", ")", ")", " ", "2", "0", "1", "3">>),
   Codes(<<"D", "e", "c", " ", "2", "5", " ", "2", "0", "1", "3", " ", "(",
           "1", "2">>),
   Codes(<<"(", "(", "J", "a", "n", ")", "9", ")", "1", "2", "/", "2", "5",
           "/", "2", "0", "1", "3">>),
   Codes(<<"1", "2", "/", "2", "5", "/", "2", "0", "1", "3", ")", "(">>)}

Inputs ==
  IsoDateInputs \cup IsoDateTimeInputs \cup BrokenIsoInputs
    \cup PartialIsoInputs \cup NumericInputs \cup NamedMonthInputs
    \cup LegacyTimeInputs \cup AmPmNoHourInputs \cup CommentInputs

-----------------------------------------------------------------------------
(* Parse: construction                                                      *)

\* The token variable before the strict phase has returned.
NoToken == DateToken(kUnknownTokenTag, 0, -1)

\* The tokenizer Parse holds, as a value.
scanner == Tokenizer(in_, next_)

\* InputReader in(cache, str); DateStringTokenizer scanner(&in); and the
\* three composers, for an input str.
Init ==
  /\ buffer_ \in Inputs
  /\ in_ = DateStringTokenizer(buffer_, InputReader(buffer_)).in_
  /\ next_ = DateStringTokenizer(buffer_, InputReader(buffer_)).next_
  /\ day = NewDayComposer
  /\ time = NewTimeComposer
  /\ tz = NewTimeZoneComposer
  /\ token = NoToken
  /\ output = NewOutput
  /\ pc = "es5_year"
  /\ result = FALSE
  /\ seen_invalid = FALSE
  /\ taken = <<>>
  /\ offered = <<>>
  /\ ret = FALSE
  /\ other = <<>>
  /\ printer = NewPrettyPrinter

\* The tokenizer is left as sc, having delivered the tokens toks.
SetScanner(sc, toks) ==
  /\ in_' = sc.in_ /\ next_' = sc.next_
  /\ taken' = taken \o toks

-----------------------------------------------------------------------------
(* ParseES5DateTime, the strict phase                                       *)

\* return tok: the strict phase hands tok back to Parse.
ES5Return(tok, sc, toks) ==
  /\ token' = tok
  /\ SetScanner(sc, toks)
  /\ seen_invalid' = (seen_invalid \/ tok.tag_ = kInvalidTokenTag)
  /\ pc' = "es5_returned"

\* YYYY: a number of exactly 4 digits, or the strict phase is left with the
\* first token as the resumption point.
ES5Year ==
  /\ pc = "es5_year"
  /\ UNCHANGED <<offered, ret, other, printer>>
  /\ IF IsFixedLengthNumber(Peek(scanner), 4)
     THEN LET n == TokenizerNext(buffer_, scanner)
          IN  /\ day' = DayAdd(day, n.result.value_).c
              /\ SetScanner(n.sc, <<n.result>>)
              /\ pc' = "es5_month"
              /\ UNCHANGED <<token, seen_invalid>>
     ELSE LET n == TokenizerNext(buffer_, scanner)
          IN  /\ ES5Return(n.result, n.sc, <<n.result>>)
              /\ UNCHANGED day
  /\ UNCHANGED <<buffer_, time, tz, output, result>>

\* -NN: the separator and a number of exactly 2 digits, recorded in the day
\* composer; any other shape leaves the strict phase at the next token.
ES5DateField(here, there) ==
  /\ pc = here
  /\ UNCHANGED <<offered, ret, other, printer>>
  /\ LET s == SkipSymbol(buffer_, scanner, Ord["-"])
         n == TokenizerNext(buffer_, s.sc)
     IN  IF s.ok /\ IsFixedLengthNumber(Peek(s.sc), 2)
         THEN /\ day' = DayAdd(day, n.result.value_).c
              /\ SetScanner(n.sc, <<Peek(scanner), n.result>>)
              /\ pc' = there
              /\ UNCHANGED <<token, seen_invalid>>
         ELSE /\ ES5Return(n.result, n.sc,
                        IF s.ok THEN <<Peek(scanner), n.result>>
                        ELSE <<n.result>>)
              /\ UNCHANGED day
  /\ UNCHANGED <<buffer_, time, tz, output, result>>

ES5Month == ES5DateField("es5_month", "es5_day")
ES5Day == ES5DateField("es5_day", "es5_sep")

\* After the date: the time separator starts the time part, the end of the
\* input completes the strict phase, anything else leaves it.
ES5Sep ==
  /\ pc = "es5_sep"
  /\ UNCHANGED <<offered, ret, other, printer>>
  /\ LET n == TokenizerNext(buffer_, scanner)
     IN  IF IsKeywordType(Peek(scanner), TIME_SEPARATOR)
         THEN /\ SetScanner(n.sc, <<n.result>>)
              /\ pc' = "es5_time"
              /\ UNCHANGED <<day, token, seen_invalid>>
         ELSE IF IsEndOfInput(Peek(scanner))
         THEN /\ day' = set_iso_date(day)
              /\ ES5Return(EndOfInput, scanner, <<>>)
         ELSE /\ ES5Return(n.result, n.sc, <<n.result>>)
              /\ UNCHANGED day
  /\ UNCHANGED <<buffer_, time, tz, output, result>>

\* HH, after the separator: a number of exactly 2 digits.  From here on any
\* deviation is terminal: the strict phase returns Invalid.
ES5Hour ==
  /\ pc = "es5_time"
  /\ UNCHANGED <<offered, ret, other, printer>>
  /\ LET n == TokenizerNext(buffer_, scanner)
     IN  IF IsFixedLengthNumber(Peek(scanner), 2)
         THEN /\ time' = TimeAdd(time, n.result.value_).c
              /\ SetScanner(n.sc, <<n.result>>)
              /\ pc' = "es5_minute"
              /\ UNCHANGED <<token, seen_invalid>>
         ELSE /\ ES5Return(Invalid, scanner, <<>>)
              /\ UNCHANGED time
  /\ UNCHANGED <<buffer_, day, tz, output, result>>

\* :NN, the minute and the second: the separator and exactly 2 digits.
ES5TimeField(here, there) ==
  /\ pc = here
  /\ UNCHANGED <<offered, ret, other, printer>>
  /\ LET s == SkipSymbol(buffer_, scanner, Ord[":"])
         n == TokenizerNext(buffer_, s.sc)
     IN  IF s.ok /\ IsFixedLengthNumber(Peek(s.sc), 2)
         THEN /\ time' = TimeAdd(time, n.result.value_).c
              /\ SetScanner(n.sc, <<Peek(scanner), n.result>>)
              /\ pc' = there
              /\ UNCHANGED <<token, seen_invalid>>
         ELSE /\ ES5Return(Invalid, scanner, <<>>)
              /\ UNCHANGED time
  /\ UNCHANGED <<buffer_, day, tz, output, result>>

ES5Minute == ES5TimeField("es5_minute", "es5_second")
ES5Second == ES5TimeField("es5_second", "es5_ms")

\* [.sss]: after a '.', a number of exactly 3 digits.
ES5Millisecond ==
  /\ pc = "es5_ms"
  /\ UNCHANGED <<offered, ret, other, printer>>
  /\ LET s == SkipSymbol(buffer_, scanner, Ord["."])
         n == TokenizerNext(buffer_, s.sc)
     IN  IF ~s.ok
         THEN /\ pc' = "es5_zone"
              /\ UNCHANGED <<time, in_, next_, taken, token, seen_invalid>>
         ELSE IF IsFixedLengthNumber(Peek(s.sc), 3)
         THEN /\ time' = TimeAdd(time, n.result.value_).c
              /\ SetScanner(n.sc, <<Peek(scanner), n.result>>)
              /\ pc' = "es5_zone"
              /\ UNCHANGED <<token, seen_invalid>>
         ELSE /\ ES5Return(Invalid, scanner, <<>>)
              /\ UNCHANGED time
  /\ UNCHANGED <<buffer_, day, tz, output, result>>

\* The zone: Z, or a sign (the offset follows), or none.
ES5Zone ==
  /\ pc = "es5_zone"
  /\ UNCHANGED <<offered, ret, other, printer>>
  /\ LET n == TokenizerNext(buffer_, scanner)
     IN  IF IsKeywordZ(Peek(scanner))
         THEN /\ tz' = TzSet(tz, 0)
              /\ SetScanner(n.sc, <<n.result>>)
              /\ pc' = "es5_end"
         ELSE IF TokenIsAsciiSign(Peek(scanner))
         THEN /\ tz' = TzSetSign(tz, ascii_sign(n.result))
              /\ SetScanner(n.sc, <<n.result>>)
              /\ pc' = "es5_zone_hour"
         ELSE /\ pc' = "es5_end"
              /\ UNCHANGED <<tz, in_, next_, taken>>
  /\ UNCHANGED <<buffer_, day, time, token, output, result, seen_invalid>>

\* After the sign: HHmm as one number of 4 digits, or HH (the minute follows).
ES5ZoneHour ==
  /\ pc = "es5_zone_hour"
  /\ UNCHANGED <<offered, ret, other, printer>>
  /\ LET n == TokenizerNext(buffer_, scanner)
         hourmin == n.result.value_
     IN  IF IsFixedLengthNumber(Peek(scanner), 4)
         THEN /\ tz' = TzSetAbsoluteMinute(
                         TzSetAbsoluteHour(tz, hourmin \div 100), hourmin % 100)
              /\ SetScanner(n.sc, <<n.result>>)
              /\ pc' = "es5_end"
              /\ UNCHANGED <<token, seen_invalid>>
         ELSE IF IsFixedLengthNumber(Peek(scanner), 2)
         THEN /\ tz' = TzSetAbsoluteHour(tz, hourmin)
              /\ SetScanner(n.sc, <<n.result>>)
              /\ pc' = "es5_zone_minute"
              /\ UNCHANGED <<token, seen_invalid>>
         ELSE /\ ES5Return(Invalid, scanner, <<>>)
              /\ UNCHANGED tz
  /\ UNCHANGED <<buffer_, day, time, output, result>>

\* :mm of the zone.
ES5ZoneMinute ==
  /\ pc = "es5_zone_minute"
  /\ UNCHANGED <<offered, ret, other, printer>>
  /\ LET s == SkipSymbol(buffer_, scanner, Ord[":"])
         n == TokenizerNext(buffer_, s.sc)
     IN  IF s.ok /\ IsFixedLengthNumber(Peek(s.sc), 2)
         THEN /\ tz' = TzSetAbsoluteMinute(tz, n.result.value_)
              /\ SetScanner(n.sc, <<Peek(scanner), n.result>>)
              /\ pc' = "es5_end"
              /\ UNCHANGED <<token, seen_invalid>>
         ELSE /\ ES5Return(Invalid, scanner, <<>>)
              /\ UNCHANGED tz
  /\ UNCHANGED <<buffer_, day, time, output, result>>

\* The date-time must end the input: then the date is marked ISO and the
\* strict phase returns EndOfInput.
ES5End ==
  /\ pc = "es5_end"
  /\ UNCHANGED <<offered, ret, other, printer>>
  /\ IF IsEndOfInput(Peek(scanner))
     THEN /\ day' = set_iso_date(day)
          /\ ES5Return(EndOfInput, scanner, <<>>)
     ELSE /\ ES5Return(Invalid, scanner, <<>>)
          /\ UNCHANGED day
  /\ UNCHANGED <<buffer_, time, tz, output, result>>

-----------------------------------------------------------------------------
(* Parse, the permissive phase                                              *)

\* return false
ReturnFalse ==
  /\ pc' = "done"
  /\ result' = FALSE

\* token = scanner.Next(), from the tokenizer sc, the tokens first having
\* been delivered before in the same step.
NextToken(sc, first) ==
  LET n == TokenizerNext(buffer_, sc)
  IN  /\ token' = n.result
      /\ SetScanner(n.sc, first \o <<n.result>>)
      /\ seen_invalid' = (seen_invalid \/ n.result.tag_ = kInvalidTokenTag)
      /\ pc' = "legacy"
      /\ UNCHANGED result

\* if (next_unhandled_token.IsInvalid()) return false; else the loop starts
\* at the token the strict phase handed back.
AfterES5 ==
  /\ pc = "es5_returned"
  /\ UNCHANGED <<offered, ret, other, printer>>
  /\ IF IsInvalid(token) THEN ReturnFalse
     ELSE pc' = "legacy" /\ UNCHANGED result
  /\ UNCHANGED <<buffer_, in_, next_, taken, day, time, tz, token, output,
                 seen_invalid>>

\* A number: the minute of a pending zone; else, before a ':', the next
\* time field; else the field the time composer expects; else a day field.
LegacyNumber ==
  /\ pc = "legacy"
  /\ UNCHANGED <<offered, ret, other, printer>>
  /\ IsNumber(token)
  /\ LET n == token.value_ IN
     IF TzIsExpecting(tz, n)
     THEN /\ tz' = TzSetAbsoluteMinute(tz, n)
          /\ NextToken(scanner, <<>>)
          /\ UNCHANGED <<day, time>>
     ELSE IF IsSymbolOf(Peek(scanner), Ord[":"])
     THEN /\ IF TimeAdd(time, n).ok
             THEN time' = TimeAdd(time, n).c /\ NextToken(scanner, <<>>)
             ELSE /\ ReturnFalse
                  /\ UNCHANGED <<time, token, in_, next_, taken,
                                 seen_invalid>>
          /\ UNCHANGED <<day, tz>>
     ELSE IF TimeIsExpecting(time, n)
     THEN /\ time' = TimeAddFinal(time, n).c
          /\ NextToken(scanner, <<>>)
          /\ UNCHANGED <<day, tz>>
     ELSE /\ IF DayAdd(day, n).ok
             THEN day' = DayAdd(day, n).c /\ NextToken(scanner, <<>>)
             ELSE /\ ReturnFalse
                  /\ UNCHANGED <<day, token, in_, next_, taken, seen_invalid>>
          /\ UNCHANGED <<time, tz>>
  /\ UNCHANGED <<buffer_, output>>

\* A keyword: a month name, a zone name, an am/pm marker (which needs an
\* hour already recorded), or a word that fills no field.
LegacyKeyword ==
  /\ pc = "legacy"
  /\ UNCHANGED <<offered, ret, other, printer>>
  /\ IsKeyword(token)
  /\ LET type == token.tag_
         value == token.value_
     IN  IF type = MONTH_NAME
         THEN /\ day' = SetNamedMonth(day, value)
              /\ NextToken(scanner, <<>>)
              /\ UNCHANGED <<time, tz>>
         ELSE IF type = TIME_ZONE_NAME
         THEN /\ tz' = TzSet(tz, value)
              /\ NextToken(scanner, <<>>)
              /\ UNCHANGED <<day, time>>
         ELSE IF type = AM_PM
         THEN /\ IF ~TimeIsEmpty(time)
                 THEN /\ time' = SetHourOffset(time, value)
                      /\ NextToken(scanner, <<>>)
                 ELSE /\ ReturnFalse
                      /\ UNCHANGED <<time, token, in_, next_, taken,
                                     seen_invalid>>
              /\ UNCHANGED <<day, tz>>
         ELSE /\ NextToken(scanner, <<>>)
              /\ UNCHANGED <<day, time, tz>>
  /\ UNCHANGED <<buffer_, output>>

\* A sign and a number right after a time: the zone offset, as hh before a
\* ':' (the minute follows) and as hhmm otherwise.
SignedNumber ==
  /\ TokenIsAsciiSign(token)
  /\ ~TimeIsEmpty(time)
  /\ IsNumber(Peek(scanner))

LegacySign ==
  /\ pc = "legacy"
  /\ UNCHANGED <<offered, ret, other, printer>>
  /\ SignedNumber
  /\ LET num == TokenizerNext(buffer_, scanner)
         n == num.result.value_
         signed == TzSetSign(tz, ascii_sign(token))
     IN  /\ tz' = IF IsSymbolOf(Peek(num.sc), Ord[":"])
                  THEN TzSetAbsoluteMinute(TzSetAbsoluteHour(signed, n), kNone)
                  ELSE TzSetAbsoluteMinute(
                         TzSetAbsoluteHour(signed, n \div 100), n % 100)
         /\ NextToken(num.sc, <<num.result>>)
  /\ UNCHANGED <<buffer_, day, time, output>>

\* Whitespace, comments, unknown words and other symbols are skipped; an
\* Invalid token fails the parse.
LegacyOther ==
  /\ pc = "legacy"
  /\ UNCHANGED <<offered, ret, other, printer>>
  /\ ~IsNumber(token) /\ ~IsKeyword(token) /\ ~SignedNumber
  /\ ~IsEndOfInput(token)
  /\ IF IsInvalid(token)
     THEN /\ ReturnFalse
          /\ UNCHANGED <<token, in_, next_, taken, seen_invalid>>
     ELSE NextToken(scanner, <<>>)
  /\ UNCHANGED <<buffer_, day, time, tz, output>>

\* The loop ends at EndOfInput.
LegacyEnd ==
  /\ pc \in {"legacy"}
  /\ UNCHANGED <<offered, ret, other, printer>>
  /\ IsEndOfInput(token)
  /\ pc' = "write"
  /\ UNCHANGED <<buffer_, in_, next_, taken, day, time, tz, token, output,
                 result,
                 seen_invalid>>

\* return day.Write(out) && time.Write(out) && tz.Write(out)
Write ==
  /\ pc = "write"
  /\ UNCHANGED <<offered, ret, other, printer>>
  /\ LET d == DayWrite(day, output)
         t == TimeWrite(time, d.out)
         z == TzWrite(tz, t.out)
     IN  /\ output' = IF ~d.ok THEN d.out ELSE IF ~t.ok THEN t.out ELSE z.out
         /\ result' = (d.ok /\ t.ok /\ z.ok)
  /\ pc' = "done"
  /\ UNCHANGED <<buffer_, in_, next_, taken, day, time, tz, token,
                 seen_invalid>>

Next ==
  \/ ES5Year
  \/ ES5Month
  \/ ES5Day
  \/ ES5Sep
  \/ ES5Hour
  \/ ES5Minute
  \/ ES5Second
  \/ ES5Millisecond
  \/ ES5Zone
  \/ ES5ZoneHour
  \/ ES5ZoneMinute
  \/ ES5End
  \/ AfterES5
  \/ LegacyNumber
  \/ LegacyKeyword
  \/ LegacySign
  \/ LegacyOther
  \/ LegacyEnd
  \/ Write

Spec == Init /\ [][Next]_vars

\* Parse is one synchronous call: it keeps running until it returns.
FairSpec == Spec /\ WF_vars(Next)

-----------------------------------------------------------------------------
(* Parse called again and again, by one caller                              *)

\* How many calls of Parse are followed after the first.
MaxParses == 2

RepeatInputs ==
  {Codes(<<"2", "0", "1", "3", "-", "1", "2", "-", "2", "5", "T", "1", "0",
           ":", "3", "0", ":", "1", "5", ".", "1", "2", "3", "+", "0", "5",
           ":", "3", "0">>),
   Codes(<<"D", "e", "c", " ", "2", "5", ",", " ", "2", "0", "1", "3", " ",
           "1", "0", ":", "3", "0", " ", "p", "m", " ", "+", "0", "5", "3",
           "0", " ", "(", "x", ")">>),
   Codes(<<"1", "2", "/", "2", "5", "/", "2", "0", "1", "3">>),
   Codes(<<"2", "0", "1", "3", "-", "1", "3", "-", "4", "5">>)}

\* The first call: the caller's array has not been written yet.
RepeatInit ==
  /\ buffer_ \in RepeatInputs
  /\ in_ = DateStringTokenizer(buffer_, InputReader(buffer_)).in_
  /\ next_ = DateStringTokenizer(buffer_, InputReader(buffer_)).next_
  /\ day = NewDayComposer
  /\ time = NewTimeComposer
  /\ tz = NewTimeZoneComposer
  /\ token = NoToken
  /\ output = NewOutput
  /\ pc = "es5_year"
  /\ result = FALSE
  /\ seen_invalid = FALSE
  /\ taken = <<>>
  /\ offered = <<>>
  /\ ret = FALSE
  /\ other = <<>>
  /\ printer = NewPrettyPrinter

\* What the call that has returned was given and what it gave back.
Returned == [str |-> buffer_, result |-> result, output |-> output]

\* A plausible slip: the time zone composer outlives the call.
ParseAgainKeepsZone ==
  /\ pc = "done"
  /\ Len(offered) < MaxParses
  /\ offered' = Append(offered, Returned)
  /\ buffer_' \in RepeatInputs
  /\ in_' = DateStringTokenizer(buffer_', InputReader(buffer_')).in_
  /\ next_' = DateStringTokenizer(buffer_', InputReader(buffer_')).next_
  /\ day' = NewDayComposer
  /\ time' = NewTimeComposer
  /\ tz' = tz
  /\ token' = NoToken
  /\ output' \in {output, NewOutput}
  /\ pc' = "es5_year"
  /\ result' = FALSE
  /\ seen_invalid' = FALSE
  /\ taken' = <<>>
  /\ UNCHANGED <<ret, other, printer>>

\* Parse is called again after it has returned: the reader, the tokenizer
\* and the composers are new objects of the new call, while the output
\* array is the caller's, who may pass the one of the call before.
ParseAgain ==
  /\ pc = "done"
  /\ Len(offered) < MaxParses
  /\ offered' = Append(offered, Returned)
  /\ buffer_' \in RepeatInputs
  /\ in_' = DateStringTokenizer(buffer_', InputReader(buffer_')).in_
  /\ next_' = DateStringTokenizer(buffer_', InputReader(buffer_')).next_
  /\ day' = NewDayComposer
  /\ time' = NewTimeComposer
  /\ tz' = NewTimeZoneComposer
  /\ token' = NoToken
  /\ output' \in {output, NewOutput}
  /\ pc' = "es5_year"
  /\ result' = FALSE
  /\ seen_invalid' = FALSE
  /\ taken' = <<>>
  /\ UNCHANGED <<ret, other, printer>>

RepeatNext ==
  \/ Next
  \/ ParseAgain

RepeatSpec == RepeatInit /\ [][RepeatNext]_vars

-----------------------------------------------------------------------------
(* Two invocations of Parse whose steps interleave                          *)

\* The objects of the invocation that is stepping.
Objects ==
  [buffer_ |-> buffer_, in_ |-> in_, next_ |-> next_, day |-> day,
   time |-> time, tz |-> tz, token |-> token, output |-> output, pc |-> pc,
   result |-> result, seen_invalid |-> seen_invalid, taken |-> taken]

\* The objects of an invocation on str that has not made a step.
NewObjects(str) ==
  [buffer_ |-> str,
   in_ |-> DateStringTokenizer(str, InputReader(str)).in_,
   next_ |-> DateStringTokenizer(str, InputReader(str)).next_,
   day |-> NewDayComposer, time |-> NewTimeComposer,
   tz |-> NewTimeZoneComposer, token |-> NoToken, output |-> NewOutput,
   pc |-> "es5_year", result |-> FALSE, seen_invalid |-> FALSE,
   taken |-> <<>>]

\* The invocation whose objects are o is the one that steps next.
Resume(o) ==
  /\ buffer_' = o.buffer_
  /\ in_' = o.in_
  /\ next_' = o.next_
  /\ day' = o.day
  /\ time' = o.time
  /\ tz' = o.tz
  /\ token' = o.token
  /\ output' = o.output
  /\ pc' = o.pc
  /\ result' = o.result
  /\ seen_invalid' = o.seen_invalid
  /\ taken' = o.taken

\* One invocation runs alone to its return.
ConcurrentInit == RepeatInit

\* The invocation that ran alone has returned: two threads now call Parse,
\* one on the same input and one on any input, each with its own objects.
Fork ==
  /\ pc = "done"
  /\ other = <<>>
  /\ offered = <<>>
  /\ offered' = <<Returned>>
  /\ Resume(NewObjects(buffer_))
  /\ \E str \in RepeatInputs : other' = <<NewObjects(str)>>
  /\ UNCHANGED <<ret, printer>>

\* A plausible slip: the time zone composer is one object the invocations
\* share.
SwitchSharesZone ==
  /\ other # <<>>
  /\ Resume([other[1] EXCEPT !.tz = tz])
  /\ other' = <<Objects>>
  /\ UNCHANGED <<offered, ret, printer>>

\* The scheduler: the stepping invocation is suspended where it is and the
\* other one goes on from where it was.
Switch ==
  /\ other # <<>>
  /\ Resume(other[1])
  /\ other' = <<Objects>>
  /\ UNCHANGED <<offered, ret, printer>>

ConcurrentNext ==
  \/ Next
  \/ Fork
  \/ Switch

ConcurrentSpec == ConcurrentInit /\ [][ConcurrentNext]_vars

-----------------------------------------------------------------------------
(* The reader on its own: any sequence of calls of its interface            *)

\* How far past the end of the buffer Next() is called.
MaxOverrun == 2

NUL == 0
ReaderInputs ==
  {Codes(<<"0", "0", "0", "0", "0", "0", "0", "0", "0", "1", "2", "3">>),
   Codes(<<"1", "2", "3", "4", "5", "6", "7", "8", "9", "0", "1", "2", "3",
           "4", "5", "x">>),
   Codes(<<"9", "9", "9", "9", "9", "9", "9", "9", "9", " ", "7">>),
   Codes(<<"0", "9", "9", "9", "9", "9", "9", "9", "9", "9", ":", "4", "2">>),
   Codes(<<"D", "E", "C", "e", "m", "b", "e", "r", "9">>),
   Codes(<<"d", "e", "c", " ", "D", "e", "C", "a", "d", "e", " ", "P", "m",
           "Z">>),
   Codes(<<"(", "a", "(", "b", ")", "c", ")", "d", "(", "(", "e", ")">>),
   Codes(<<")", "(", "1", ")", ")", "(", "(", ")", "(", ")", ")", "2">>),
   Codes(<<" ", " ", " ", "1", " ", "a", " ", " ">>) \o <<9, 10, 160>>
     \o Codes(<<"(", " ">>),
   Codes(<<"(", "a">>) \o <<NUL>> \o Codes(<<"b", ")", "c">>),
   Codes(<<"1", "2">>) \o <<NUL>> \o Codes(<<"3", "a">>) \o <<NUL>>,
   <<>>}
PrefixSizes == {1, 3, 5}
SkipChars == {Ord["("], Ord[" "], Ord["9"], NUL}

ReaderPcs ==
  {"reader", "Next", "ReadUnsignedNumeral", "ReadWord", "Skip",
   "SkipWhiteSpace", "SkipParentheses"}

\* InputReader in(cache, str), nothing else in use.
ReaderInit ==
  /\ buffer_ \in ReaderInputs
  /\ in_ = InputReader(buffer_)
  /\ next_ = NoToken
  /\ day = NewDayComposer
  /\ time = NewTimeComposer
  /\ tz = NewTimeZoneComposer
  /\ token = NoToken
  /\ output = NewOutput
  /\ pc = "reader"
  /\ result = FALSE
  /\ seen_invalid = FALSE
  /\ taken = <<>>
  /\ offered = <<>>
  /\ ret = FALSE
  /\ other = <<>>
  /\ printer = NewPrettyPrinter

\* A call on the reader: it is left as r, the call having been given args
\* and having returned value.  (Next() and Skip(0) go on past the end for
\* ever: they are followed MaxOverrun characters far.)
ReaderCall(name, args, r, value) ==
  /\ pc \in ReaderPcs
  /\ r.index_ <= Len(buffer_) + MaxOverrun
  /\ pc' = name
  /\ offered' = args
  /\ in_' = r
  /\ ret' = value
  /\ UNCHANGED <<other, printer, buffer_, next_, day, time, tz, token, output,
                 result, seen_invalid, taken>>

CallNext == ReaderCall("Next", <<>>, ReaderNext(buffer_, in_), FALSE)
CallReadUnsignedNumeral ==
  LET n == ReadUnsignedNumeral(buffer_, in_)
  IN  ReaderCall("ReadUnsignedNumeral", <<>>, n.in, n.n)
CallReadWord ==
  \E prefix_size \in PrefixSizes :
    LET w == ReadWord(buffer_, in_, prefix_size)
    IN  ReaderCall("ReadWord", <<prefix_size>>, w.in,
                   [len |-> w.len, prefix |-> w.prefix])
CallSkip ==
  \E c \in SkipChars :
    LET k == Skip(buffer_, in_, c)
    IN  ReaderCall("Skip", <<c>>, k.in, k.ok)
CallSkipWhiteSpace ==
  LET k == SkipWhiteSpace(buffer_, in_)
  IN  ReaderCall("SkipWhiteSpace", <<>>, k.in, k.ok)
CallSkipParentheses ==
  LET k == SkipParentheses(buffer_, in_)
  IN  ReaderCall("SkipParentheses", <<>>, k.in, k.ok)

ReaderStep ==
  \/ CallNext
  \/ CallReadUnsignedNumeral
  \/ CallReadWord
  \/ CallSkip
  \/ CallSkipWhiteSpace
  \/ CallSkipParentheses

ReaderSpec == ReaderInit /\ [][ReaderStep]_vars

-----------------------------------------------------------------------------
(* The tokenizer on its own: any interleaving of Next, Peek and SkipSymbol  *)

\* How many times Next() is called with the end of input as lookahead.
MaxEndReads == 2

TokenizerInputs ==
  {Codes(<<"1", ":", "2", "-", "3">>),
   Codes(<<"1", "2", "-", "3", " ", " ", "+", "4", ".", "5">>),
   Codes(<<"a", ":", "(", "b", ")", "-", "Z">>),
   Codes(<<" ", " ", ":", ":", "+", "-">>),
   Codes(<<"T", "+", "1", ":", "3", "0", ")", "x">>),
   Codes(<<"1">>) \o <<NUL>> \o Codes(<<":", "2">>),
   Codes(<<":">>),
   <<>>}
SymbolArgs == {Ord[":"], Ord["-"], Ord["+"]}

TokenizerPcs ==
  {"tokenizer", "DateStringTokenizer::Next", "DateStringTokenizer::Peek",
   "DateStringTokenizer::SkipSymbol"}

\* The tokens delivered so far that are the end of input.
EndReads == Cardinality({i \in DOMAIN taken : IsEndOfInput(taken[i])})

\* InputReader in(cache, str); DateStringTokenizer scanner(&in).
TokenizerInit ==
  /\ buffer_ \in TokenizerInputs
  /\ in_ = DateStringTokenizer(buffer_, InputReader(buffer_)).in_
  /\ next_ = DateStringTokenizer(buffer_, InputReader(buffer_)).next_
  /\ day = NewDayComposer
  /\ time = NewTimeComposer
  /\ tz = NewTimeZoneComposer
  /\ token = NoToken
  /\ output = NewOutput
  /\ pc = "tokenizer"
  /\ result = FALSE
  /\ seen_invalid = FALSE
  /\ taken = <<>>
  /\ offered = <<>>
  /\ ret = FALSE
  /\ other = <<>>
  /\ printer = NewPrettyPrinter

\* A call on the tokenizer: it is left as sc, the call having been given
\* args, having returned value and having delivered the tokens toks.
TokenizerCall(name, args, sc, value, toks) ==
  /\ pc \in TokenizerPcs
  /\ pc' = name
  /\ offered' = args
  /\ in_' = sc.in_
  /\ next_' = sc.next_
  /\ ret' = value
  /\ taken' = taken \o toks
  /\ UNCHANGED <<other, printer, buffer_, day, time, tz, token, output, result,
                 seen_invalid>>

CallTokenizerNext ==
  /\ EndReads < MaxEndReads
  /\ LET n == TokenizerNext(buffer_, scanner)
     IN  TokenizerCall("DateStringTokenizer::Next", <<>>, n.sc, n.result,
                       <<n.result>>)
CallPeek ==
  TokenizerCall("DateStringTokenizer::Peek", <<>>, scanner, Peek(scanner),
                <<>>)
CallSkipSymbol ==
  \E symbol \in SymbolArgs :
    LET k == SkipSymbol(buffer_, scanner, symbol)
    IN  TokenizerCall("DateStringTokenizer::SkipSymbol", <<symbol>>, k.sc,
                      k.ok, IF k.ok THEN <<Peek(scanner)>> ELSE <<>>)

TokenizerStep ==
  \/ CallTokenizerNext
  \/ CallPeek
  \/ CallSkipSymbol

TokenizerSpec == TokenizerInit /\ [][TokenizerStep]_vars

-----------------------------------------------------------------------------
(* The composers on their own: any sequence of calls on one of them         *)

\* How many numbers are offered to a composer.
MaxCalls == 5

\* What the slots of comp_, which no constructor initialises, may hold.
Garbage == {0, 77}
AddArgs == {0, 7, 59}
MonthArgs == {0, 11}
HourOffsetArgs == {0, 12}
OffsetArgs == {-8, 0, 5}
SignArgs == {-1, 1}
HourArgs == {0, 5}
MinuteArgs == {0, 30}

DayPcs ==
  {"day", "DayComposer::Add", "DayComposer::SetNamedMonth",
   "DayComposer::set_iso_date"}
TimePcs ==
  {"time", "TimeComposer::Add", "TimeComposer::AddFinal",
   "TimeComposer::SetHourOffset"}
TzPcs ==
  {"tz", "TimeZoneComposer::Set", "TimeZoneComposer::SetSign",
   "TimeZoneComposer::SetAbsoluteHour",
   "TimeZoneComposer::SetAbsoluteMinute", "TimeZoneComposer::IsUTC"}

\* DayComposer day; TimeComposer time; TimeZoneComposer tz: one of them is
\* then used.
ComposerInit ==
  /\ buffer_ = <<>>
  /\ in_ = InputReader(buffer_)
  /\ next_ = NoToken
  /\ \E g \in Garbage :
       /\ day = [NewDayComposer EXCEPT
                   !.comp_ = [i \in 0..(kDaySize - 1) |-> g]]
       /\ time = [NewTimeComposer EXCEPT
                    !.comp_ = [i \in 0..(kTimeSize - 1) |-> g]]
  /\ tz = NewTimeZoneComposer
  /\ token = NoToken
  /\ output = NewOutput
  /\ pc \in {"day", "time", "tz"}
  /\ result = FALSE
  /\ seen_invalid = FALSE
  /\ taken = <<>>
  /\ offered = <<>>
  /\ ret = FALSE
  /\ other = <<>>
  /\ printer = NewPrettyPrinter

\* A call on the day composer, which is left as d.
DayCall(name, args, d, value) ==
  /\ pc \in DayPcs
  /\ pc' = name
  /\ offered' = offered \o args
  /\ day' = d
  /\ ret' = value
  /\ UNCHANGED <<other, printer, buffer_, in_, next_, time, tz, token, output,
                 result, seen_invalid, taken>>
CallDayAdd ==
  /\ Len(offered) < MaxCalls
  /\ \E n \in AddArgs :
       DayCall("DayComposer::Add", <<n>>, DayAdd(day, n).c, DayAdd(day, n).ok)
CallSetNamedMonth ==
  \E n \in MonthArgs :
    DayCall("DayComposer::SetNamedMonth", <<>>, SetNamedMonth(day, n), FALSE)
CallSetIsoDate ==
  DayCall("DayComposer::set_iso_date", <<>>, set_iso_date(day), FALSE)

\* A call on the time composer, which is left as t.
TimeCall(name, args, t, value) ==
  /\ pc \in TimePcs
  /\ pc' = name
  /\ offered' = offered \o args
  /\ time' = t
  /\ ret' = value
  /\ UNCHANGED <<other, printer, buffer_, in_, next_, day, tz, token, output,
                 result, seen_invalid, taken>>
CallTimeAdd ==
  /\ Len(offered) < MaxCalls
  /\ \E n \in AddArgs :
       TimeCall("TimeComposer::Add", <<n>>, TimeAdd(time, n).c,
                TimeAdd(time, n).ok)
CallTimeAddFinal ==
  /\ Len(offered) < MaxCalls
  /\ \E n \in AddArgs :
       TimeCall("TimeComposer::AddFinal", <<n>>, TimeAddFinal(time, n).c,
                TimeAddFinal(time, n).ok)
CallSetHourOffset ==
  \E n \in HourOffsetArgs :
    TimeCall("TimeComposer::SetHourOffset", <<>>, SetHourOffset(time, n),
             FALSE)

\* A call on the time zone composer, which is left as z.
TzCall(name, args, z, value) ==
  /\ pc \in TzPcs
  /\ pc' = name
  /\ offered' = args
  /\ tz' = z
  /\ ret' = value
  /\ UNCHANGED <<other, printer, buffer_, in_, next_, day, time, token, output,
                 result, seen_invalid, taken>>
CallTzSet ==
  \E offset_in_hours \in OffsetArgs :
    TzCall("TimeZoneComposer::Set", <<offset_in_hours>>,
           TzSet(tz, offset_in_hours), FALSE)
CallTzSetSign ==
  \E sign \in SignArgs :
    TzCall("TimeZoneComposer::SetSign", <<sign>>, TzSetSign(tz, sign), FALSE)
CallTzSetAbsoluteHour ==
  \E hour \in HourArgs :
    TzCall("TimeZoneComposer::SetAbsoluteHour", <<hour>>,
           TzSetAbsoluteHour(tz, hour), FALSE)
CallTzSetAbsoluteMinute ==
  \E minute \in MinuteArgs :
    TzCall("TimeZoneComposer::SetAbsoluteMinute", <<minute>>,
           TzSetAbsoluteMinute(tz, minute), FALSE)
CallTzIsUTC == TzCall("TimeZoneComposer::IsUTC", <<>>, tz, TzIsUTC(tz))

ComposerStep ==
  \/ CallDayAdd
  \/ CallSetNamedMonth
  \/ CallSetIsoDate
  \/ CallTimeAdd
  \/ CallTimeAddFinal
  \/ CallSetHourOffset
  \/ CallTzSet
  \/ CallTzSetSign
  \/ CallTzSetAbsoluteHour
  \/ CallTzSetAbsoluteMinute
  \/ CallTzIsUTC

ComposerSpec == ComposerInit /\ [][ComposerStep]_vars

-----------------------------------------------------------------------------
(* The range predicates on their own                                        *)

RangeArgs ==
  {kMinInt, kMinInt + 1, kMinInt + 999, -1000, -1, 0, 1, 11, 12, 13, 23, 24,
   31, 32, 59, 60, 998, 999, 1000, kMaxInt - 1, kNone}
BoundArgs == {0, 1, 12, 23, 31, 59, 999}
TzSamples ==
  {NewTimeZoneComposer,
   TzSetSign(NewTimeZoneComposer, -1),
   TzSetAbsoluteHour(TzSetSign(NewTimeZoneComposer, 1), 5),
   TzSetAbsoluteMinute(TzSetAbsoluteHour(NewTimeZoneComposer, 5), 30),
   TzSet(NewTimeZoneComposer, 0)}

RangePcs ==
  {"range", "Between", "IsMonth", "IsDay", "IsHour", "IsMinute",
   "TimeZoneComposer::IsExpecting"}

RangeInit ==
  /\ buffer_ = <<>>
  /\ in_ = InputReader(buffer_)
  /\ next_ = NoToken
  /\ day = NewDayComposer
  /\ time = NewTimeComposer
  /\ tz = NewTimeZoneComposer
  /\ token = NoToken
  /\ output = NewOutput
  /\ pc = "range"
  /\ result = FALSE
  /\ seen_invalid = FALSE
  /\ taken = <<>>
  /\ offered = <<>>
  /\ ret = FALSE
  /\ other = <<>>
  /\ printer = NewPrettyPrinter

\* x - lo overflows the int: the behaviour of the subtraction is undefined.
Overflows(x, lo) == x < kMinInt + lo

\* What a call of Between can return: the value computed with wraparound
\* where the subtraction is defined, and anything where it is not.
BetweenOutcomes(x, lo, hi) ==
  IF Overflows(x, lo) THEN BOOLEAN ELSE {Between(x, lo, hi)}

\* A call of a range predicate with args on the composer z, which returns
\* one of values.
RangeCall(name, args, z, values) ==
  /\ pc \in RangePcs
  /\ pc' = name
  /\ offered' = args
  /\ tz' = z
  /\ ret' \in values
  /\ UNCHANGED <<other, printer, buffer_, in_, next_, day, time, token, output,
                 result, seen_invalid, taken>>

CallBetween ==
  \E x \in RangeArgs, lo \in BoundArgs, hi \in BoundArgs :
    /\ lo <= hi
    /\ RangeCall("Between", <<x, lo, hi>>, tz, BetweenOutcomes(x, lo, hi))
CallIsMonth ==
  \E x \in RangeArgs :
    RangeCall("IsMonth", <<x>>, tz,
              IF Overflows(x, 1) THEN BOOLEAN ELSE {IsMonth(x)})
CallIsDay ==
  \E x \in RangeArgs :
    RangeCall("IsDay", <<x>>, tz,
              IF Overflows(x, 1) THEN BOOLEAN ELSE {IsDay(x)})
CallIsHour ==
  \E x \in RangeArgs : RangeCall("IsHour", <<x>>, tz, {IsHour(x)})
CallIsMinute ==
  \E x \in RangeArgs : RangeCall("IsMinute", <<x>>, tz, {IsMinute(x)})
CallTzIsExpecting ==
  \E z \in TzSamples, n \in RangeArgs :
    RangeCall("TimeZoneComposer::IsExpecting", <<n>>, z,
              {TzIsExpecting(z, n)})

RangeStep ==
  \/ CallBetween
  \/ CallIsMonth
  \/ CallIsDay
  \/ CallIsHour
  \/ CallIsMinute
  \/ CallTzIsExpecting

RangeSpec == RangeInit /\ [][RangeStep]_vars

-----------------------------------------------------------------------------
(* The pretty printer's buffer: Init() and Print(format, ...) in any order  *)

\* How many texts are printed between two calls of Init().
MaxPrints == 2
\* How many times Init() is called.
MaxInits == 2

\* A text of len characters, none of them 0.
Text(len, c) == SubSeq([i \in 1..len |-> c + (i % 5)], 1, len)
PrintTexts == {Text(120, 97), Text(450, 48)}

PrinterPcs == {"PrettyPrinter", "Init", "Print", "Print:loop"}

\* PrettyPrinter printer.
PrinterStart ==
  /\ buffer_ = <<>>
  /\ in_ = InputReader(buffer_)
  /\ next_ = NoToken
  /\ day = NewDayComposer
  /\ time = NewTimeComposer
  /\ tz = NewTimeZoneComposer
  /\ token = NoToken
  /\ output = NewOutput
  /\ pc = "PrettyPrinter"
  /\ result = FALSE
  /\ seen_invalid = FALSE
  /\ taken = <<>>
  /\ offered = <<>>
  /\ ret = FALSE
  /\ other = <<>>
  /\ printer = NewPrettyPrinter

\* The texts printed since the last Init(): offered has one sequence of
\* texts for each call of Init().
Printed == offered[Len(offered)]

\* A step of the printer, which is left as p at the position at, the texts
\* printed being texts.
PrinterCall(at, p, texts) ==
  /\ pc' = at
  /\ printer' = p
  /\ offered' = texts
  /\ UNCHANGED <<other, buffer_, in_, next_, day, time, tz, token, output,
                 result, seen_invalid, taken, ret>>

\* Init(), as the first thing Print(node), PrintExpression and PrintProgram
\* do.
CallPrinterInit ==
  /\ pc \in {"PrettyPrinter", "Init", "Print"}
  /\ Len(offered) < MaxInits
  /\ \E g \in Garbage :
       PrinterCall("Init", PrinterInit(printer, g), Append(offered, <<>>))

\* Print(format, ...) is entered, format and arguments expanding to text.
PrintEnter ==
  /\ pc \in {"Init", "Print"}
  /\ Len(Printed) < MaxPrints
  /\ \E text \in PrintTexts :
       PrinterCall("Print:loop", printer,
                   [offered EXCEPT ![Len(offered)] = Append(@, text)])

\* One turn of for (;;): the text is stored and Print returns, or the
\* buffer grows.
PrintTurn ==
  /\ pc = "Print:loop"
  /\ \E g \in Garbage :
       LET t == PrinterPrintTurn(printer, Printed[Len(Printed)], g)
       IN  PrinterCall(IF t.done THEN "Print" ELSE "Print:loop", t.p,
                       offered)

PrinterStep ==
  \/ CallPrinterInit
  \/ PrintEnter
  \/ PrintTurn

\* Print is one synchronous call: its loop keeps running.
PrinterSpec == PrinterStart /\ [][PrinterStep]_vars /\ WF_vars(PrintTurn)

-----------------------------------------------------------------------------
(* What the claims speak of, read off the input text and the final state    *)

\* The decimal value of the digits buf[from..to].
RECURSIVE ValueOf(_, _, _)
ValueOf(buf, from, to) ==
  IF to < from THEN 0
  ELSE ValueOf(buf, from, to - 1) * 10 + (buf[to] - Ord["0"])

AllDigits(buf, from, to) ==
  \A i \in from..to : buf[i] >= Ord["0"] /\ buf[i] <= Ord["9"]

\* The text is exactly YYYY-MM-DD.
IsIsoDateText(buf) ==
  /\ Len(buf) = 10
  /\ AllDigits(buf, 1, 4) /\ buf[5] = Ord["-"]
  /\ AllDigits(buf, 6, 7) /\ buf[8] = Ord["-"]
  /\ AllDigits(buf, 9, 10)

\* Parse has returned.
Done == pc = "done"
\* Parse has returned from its last line, the three Write calls.
WriteRan == pc = "done" /\ token.tag_ = kEndOfInputTag
\* DayComposer::Write has stored a date.
DayWritten == output[DAY].tag = "smi"
\* TimeComposer::Write has stored a time.
TimeWritten == output[HOUR].tag = "smi"

SlotIn(i, lo, hi) ==
  output[i].tag = "smi" /\ output[i].v >= lo /\ output[i].v <= hi

\* The year a bare year number c may resolve to: itself, or for a two-digit
\* number the same year of the 1900s or the 2000s.
YearsOf(c) == IF c >= 0 /\ c < 100 THEN {1900 + c, 2000 + c} ELSE {c}

-----------------------------------------------------------------------------
(* C1.  Whenever Parse reports success every output slot is in range: the   *)
(* month in 0..11, the day in 1..31, the hour in 0..23, the minute and the  *)
(* second in 0..59, the millisecond in 0..999, and the UTC offset slot is   *)
(* null or an integer number of seconds.                                    *)
C1_SuccessSlotsInRange ==
  (Done /\ result) =>
    /\ output[YEAR].tag = "smi"
    /\ SlotIn(MONTH, 0, 11)
    /\ SlotIn(DAY, 1, 31)
    /\ SlotIn(HOUR, 0, 23)
    /\ SlotIn(MINUTE, 0, 59)
    /\ SlotIn(SECOND, 0, 59)
    /\ SlotIn(MILLISECOND, 0, 999)
    /\ output[UTC_OFFSET].tag \in {"null", "smi"}

\* A success at the upper end of the ranges, with a zone.
C1_Witness ==
  /\ Done /\ result
  /\ output[MONTH] = Smi(11) /\ output[HOUR] = Smi(23)
  /\ output[MINUTE] = Smi(59) /\ output[UTC_OFFSET].tag = "smi"

(* C2.  For every input of the exact form YYYY-MM-DD with MM in 01..12 and  *)
(* DD in 01..31, Parse succeeds with year = YYYY, month = MM - 1 and        *)
(* day = DD.                                                                *)
C2_IsoDateRoundTrip ==
  (Done /\ IsIsoDateText(buffer_)
     /\ ValueOf(buffer_, 6, 7) \in 1..12 /\ ValueOf(buffer_, 9, 10) \in 1..31)
  =>
    /\ result
    /\ output[YEAR] = Smi(ValueOf(buffer_, 1, 4))
    /\ output[MONTH] = Smi(ValueOf(buffer_, 6, 7) - 1)
    /\ output[DAY] = Smi(ValueOf(buffer_, 9, 10))

\* 0012-02-31 has been parsed: the three fields differ and the year is small.
C2_Witness ==
  /\ Done /\ result /\ IsIsoDateText(buffer_)
  /\ output[YEAR] = Smi(12) /\ output[MONTH] = Smi(1) /\ output[DAY] = Smi(31)

\* The text a/b/c as a string of character codes.
SlashDate(a, b, c) ==
  Decimal(a) \o Codes(<<"/">>) \o Decimal(b) \o Codes(<<"/">>) \o Decimal(c)

(* C3.  Three bare numbers a, b, c recorded in that order, no month word    *)
(* and no ISO flag, when DayComposer::Write runs: they resolve as           *)
(* (day, month, year) = (a, b, c) when a > 12 and as (month, day, year) =   *)
(* (a, b, c) otherwise (a year c below 100 is windowed into the 1900s or    *)
(* the 2000s); the date is written exactly when that month is in 1..12 and  *)
(* that day in 1..31.  So 12/25/2013 and 25/12/2013 both succeed with       *)
(* year 2013, month 11, day 25.                                             *)
C3_ThreeBareNumbers ==
  /\ (WriteRan /\ day.named_month_ = kNone /\ ~day.is_iso_date_
        /\ day.index_ = 3) =>
       LET a == day.comp_[0]
           b == day.comp_[1]
           c == day.comp_[2]
           dd == IF a > 12 THEN a ELSE b
           mm == IF a > 12 THEN b ELSE a
       IN  IF mm \in 1..12 /\ dd \in 1..31
           THEN /\ output[DAY] = Smi(dd)
                /\ output[MONTH] = Smi(mm - 1)
                /\ output[YEAR].tag = "smi" /\ output[YEAR].v \in YearsOf(c)
           ELSE ~DayWritten /\ ~result
  /\ (Done /\ buffer_ \in {SlashDate(12, 25, 2013), SlashDate(25, 12, 2013)}) =>
       /\ result
       /\ output[YEAR] = Smi(2013) /\ output[MONTH] = Smi(11)
       /\ output[DAY] = Smi(25)

\* 25/12/2013 has been parsed, day first.
C3_Witness ==
  /\ WriteRan /\ result
  /\ buffer_ = SlashDate(25, 12, 2013)
  /\ day.named_month_ = kNone /\ ~day.is_iso_date_ /\ day.index_ = 3
  /\ day.comp_[0] = 25 /\ day.comp_[1] = 12 /\ day.comp_[2] = 2013
  /\ output[YEAR] = Smi(2013) /\ output[MONTH] = Smi(11)
  /\ output[DAY] = Smi(25)

(* C4.  A named month and two numbers a (first) and b (second) in the day   *)
(* composer when Write runs: if a is in 1..31 the day is a and the year b   *)
(* (also when b is in 1..31); otherwise if b is in 1..31 the day is b and   *)
(* the year a; otherwise Write fails.  The month is the named one, wherever *)
(* the word stood.                                                          *)
C4_NamedMonthDayYear ==
  (WriteRan /\ day.named_month_ # kNone /\ day.index_ = 2) =>
    LET a == day.comp_[0]
        b == day.comp_[1]
    IN  IF a \in 1..31
        THEN /\ output[DAY] = Smi(a) /\ output[YEAR] = Smi(b)
             /\ output[MONTH] = Smi(day.named_month_ - 1)
        ELSE IF b \in 1..31
        THEN /\ output[DAY] = Smi(b) /\ output[YEAR] = Smi(a)
             /\ output[MONTH] = Smi(day.named_month_ - 1)
        ELSE ~DayWritten /\ ~result

\* "1 25 Dec": both numbers are days, the first seen is the day, and the
\* month word came last.
C4_Witness ==
  /\ WriteRan /\ result
  /\ buffer_[1] = Ord["1"] /\ buffer_[Len(buffer_)] = Ord["c"]
  /\ day.index_ = 2 /\ day.comp_[0] = 1 /\ day.comp_[1] = 25
  /\ output[DAY] = Smi(1) /\ output[YEAR] = Smi(25)
  /\ output[MONTH] = Smi(11)

-----------------------------------------------------------------------------
\* Slot i of the time composer as Write sees it: unfilled slots count 0.
TimeField(i) == IF i < time.index_ THEN time.comp_[i] ELSE 0
\* The minute, second and millisecond recorded are in range.
TimeRestInRange ==
  /\ TimeField(1) \in 0..59 /\ TimeField(2) \in 0..59
  /\ TimeField(3) \in 0..999
\* What Write does with the recorded hour when an am/pm offset is set and
\* the hours from lo to 12 are the 12-hour clock.
Hour12Rule(lo) ==
  (WriteRan /\ DayWritten /\ time.hour_offset_ # kNone) =>
    LET h == TimeField(0)
    IN  IF h \in lo..12
        THEN TimeRestInRange =>
               output[HOUR] =
                 Smi(IF h = 12 \/ h = 0 THEN time.hour_offset_
                     ELSE h + time.hour_offset_)
        ELSE ~TimeWritten /\ ~result

(* C5, as stated.  With an am/pm offset set, TimeComposer::Write accepts    *)
(* the recorded hour only in 1..12 (12 am is 0, 12 pm is 12, h am is h,     *)
(* h pm is h + 12); an hour of 0 or above 12 makes Write fail.              *)
C5_Original_Hour1To12 == Hour12Rule(1)

(* C5, amended.  With an am/pm offset set, TimeComposer::Write accepts the  *)
(* recorded hour exactly when it is in 0..12: 0 and 12 give the offset      *)
(* itself (0 for am, 12 for pm), h in 1..11 gives h + offset; an hour       *)
(* above 12 makes Write fail.                                               *)
C5_Hour0To12 ==
  /\ Hour12Rule(0)
  /\ (WriteRan /\ time.hour_offset_ # kNone) => time.hour_offset_ \in {0, 12}

\* "0:30:00 PM" has been accepted as hour 12.
C5_Witness ==
  /\ WriteRan /\ result /\ time.hour_offset_ = 12 /\ TimeField(0) = 0
  /\ output[HOUR] = Smi(12) /\ output[MINUTE] = Smi(30)

(* C6.  A valid date with no time and no time zone recorded (such as        *)
(* 2013-12-25): Parse succeeds with hour, minute, second and millisecond 0  *)
(* and the UTC offset slot null.                                            *)
C6_DateOnlyDefaults ==
  /\ (WriteRan /\ DayWritten /\ time.index_ = 0 /\ tz.hour_ = kNone) =>
       /\ result
       /\ output[HOUR] = Smi(0) /\ output[MINUTE] = Smi(0)
       /\ output[SECOND] = Smi(0) /\ output[MILLISECOND] = Smi(0)
       /\ output[UTC_OFFSET] = Null
  /\ (Done /\ buffer_ = IsoDate(2013, 12, 25)) =>
       /\ result
       /\ output = [i \in 0..(OUTPUT_SIZE - 1) |->
                      CASE i = YEAR -> Smi(2013)
                        [] i = MONTH -> Smi(11)
                        [] i = DAY -> Smi(25)
                        [] i = UTC_OFFSET -> Null
                        [] OTHER -> Smi(0)]

\* 2013-12-25 has been parsed.
C6_Witness ==
  /\ WriteRan /\ result /\ buffer_ = IsoDate(2013, 12, 25)
  /\ time.index_ = 0 /\ tz.hour_ = kNone
  /\ output[HOUR] = Smi(0) /\ output[UTC_OFFSET] = Null

\* The text is YYYY-MM-DDTHH:mm:ss followed by something.
IsStrictDateTimeText(buf) ==
  /\ Len(buf) > 19
  /\ IsIsoDateText(SubSeq(buf, 1, 10))
  /\ buf[11] = Ord["T"]
  /\ AllDigits(buf, 12, 13) /\ buf[14] = Ord[":"]
  /\ AllDigits(buf, 15, 16) /\ buf[17] = Ord[":"]
  /\ AllDigits(buf, 18, 19)
SignOf(c) == IF c = Ord["-"] THEN -1 ELSE 1

(* C7.  For YYYY-MM-DDTHH:mm:ss followed by a zone, the UTC offset written  *)
(* on success is sign * (hour * 3600 + minute * 60) seconds: 0 for Z, and   *)
(* +/-(HH * 3600 + mm * 60) for +/-HH:mm and for +/-HHmm.                   *)
C7_StrictZoneOffset ==
  (Done /\ result /\ IsStrictDateTimeText(buffer_)) =>
    /\ (Len(buffer_) = 20 /\ buffer_[20] = Ord["Z"]) =>
         output[UTC_OFFSET] = Smi(0)
    /\ (Len(buffer_) = 25 /\ buffer_[20] \in {Ord["+"], Ord["-"]}
          /\ AllDigits(buffer_, 21, 22) /\ buffer_[23] = Ord[":"]
          /\ AllDigits(buffer_, 24, 25)) =>
         output[UTC_OFFSET] =
           Smi(SignOf(buffer_[20]) * (ValueOf(buffer_, 21, 22) * 3600
                                        + ValueOf(buffer_, 24, 25) * 60))
    /\ (Len(buffer_) = 24 /\ buffer_[20] \in {Ord["+"], Ord["-"]}
          /\ AllDigits(buffer_, 21, 24)) =>
         output[UTC_OFFSET] =
           Smi(SignOf(buffer_[20]) * (ValueOf(buffer_, 21, 22) * 3600
                                        + ValueOf(buffer_, 23, 24) * 60))

\* 2013-12-25T10:30:00-05:30 has been parsed: 19800 seconds west.
C7_Witness ==
  /\ Done /\ result /\ IsStrictDateTimeText(buffer_)
  /\ Len(buffer_) = 25 /\ buffer_[20] = Ord["-"]
  /\ output[UTC_OFFSET] = Smi(-19800)

-----------------------------------------------------------------------------
\* The month and the day as the day composer's numbers stand for them when
\* Write runs with all the numbers a date needs (see C3 and C4).
DayComplete ==
  IF day.named_month_ # kNone THEN day.index_ = 2 ELSE day.index_ = 3
MonthAsWritten ==
  IF day.named_month_ # kNone THEN day.named_month_
  ELSE IF day.is_iso_date_ THEN day.comp_[1]
  ELSE IF day.comp_[0] > 12 THEN day.comp_[1] ELSE day.comp_[0]
DayAsWritten ==
  IF day.named_month_ # kNone
  THEN IF day.comp_[0] \in 1..31 THEN day.comp_[0] ELSE day.comp_[1]
  ELSE IF day.is_iso_date_ THEN day.comp_[2]
  ELSE IF day.comp_[0] > 12 THEN day.comp_[0] ELSE day.comp_[1]
\* The hour Write is to store: the recorded one moved by the am/pm offset.
HourAsWritten ==
  IF time.hour_offset_ = kNone THEN TimeField(0)
  ELSE IF TimeField(0) \in 0..12 THEN (TimeField(0) % 12) + time.hour_offset_
  ELSE -1
SomeFieldOutOfRange ==
  \/ DayComplete /\ (MonthAsWritten \notin 1..12 \/ DayAsWritten \notin 1..31)
  \/ HourAsWritten \notin 0..23
  \/ ~TimeRestInRange
\* The legacy loop holds a number that no composer but the day composer
\* would take.
NumberForDay ==
  /\ pc = "legacy" /\ IsNumber(token)
  /\ ~TzIsExpecting(tz, token.value_)
  /\ ~IsSymbolOf(Peek(scanner), Ord[":"])
  /\ ~TimeIsExpecting(time, token.value_)

(* C8.  If a composed field is out of range when Write runs (month outside  *)
(* 1..12, day outside 1..31, hour outside 0..23, minute or second outside   *)
(* 0..59, millisecond outside 0..999) Parse returns false; if a fourth      *)
(* number is offered to the day composer Parse returns false at once; and   *)
(* 2013-13-45 fails.                                                        *)
C8_OutOfRangeFails ==
  /\ []((WriteRan /\ SomeFieldOutOfRange) => ~result)
  /\ []((Done /\ buffer_ = IsoDate(2013, 13, 45)) => ~result)
  /\ [][(NumberForDay /\ day.index_ = kDaySize)
          => (pc' = "done" /\ ~result' /\ day' = day)]_vars

\* "Dec 25, 2013 10:60:00" has failed in Write on its minute, the date
\* having been written.
C8_Witness ==
  /\ WriteRan /\ ~result /\ DayWritten /\ ~TimeWritten
  /\ TimeField(0) = 10 /\ TimeField(1) = 60

\* 1/2/3/4 has failed on its fourth number.
C8_WitnessFourth ==
  /\ Done /\ ~result /\ IsNumber(token) /\ token.value_ = 4
  /\ day.index_ = kDaySize

(* C9.  An am/pm word met while the time composer is empty makes Parse      *)
(* return false, and the hour offset is never set on an empty time          *)
(* composer.                                                                *)
C9_AmPmNeedsHour ==
  /\ [](time.hour_offset_ # kNone => time.index_ > 0)
  /\ [][(pc = "legacy" /\ IsKeywordType(token, AM_PM) /\ time.index_ = 0)
          => (pc' = "done" /\ ~result' /\ time' = time)]_vars

\* "Dec 25, 2013 PM" has failed on the PM.
C9_Witness ==
  /\ Done /\ ~result /\ IsKeywordType(token, AM_PM) /\ time.index_ = 0
  /\ time.hour_offset_ = kNone /\ day.index_ = 2

(* C10.  Once the strict phase has returned the Invalid token Parse returns *)
(* false, whatever input is left and whatever the composers hold: an        *)
(* Invalid token in hand always leads straight to the return of false, and  *)
(* no parse succeeds after one has been seen.                               *)
C10_InvalidIsFatal ==
  /\ []((Done /\ seen_invalid) => ~result)
  /\ [][(IsInvalid(token) /\ pc \in {"es5_returned", "legacy"})
          => (pc' = "done" /\ ~result')]_vars
  /\ [][seen_invalid => seen_invalid']_vars

\* 2013-12-25T10:30:00Z 1: the strict phase had a full date, time and zone
\* in the composers when it met the trailing text.
C10_Witness ==
  /\ Done /\ ~result /\ seen_invalid /\ IsInvalid(token)
  /\ day.index_ = 3 /\ time.index_ > 0 /\ tz.hour_ = 0
  /\ ~IsEnd(in_)

-----------------------------------------------------------------------------
\* The reader of buf with p characters behind it (p = Len(buf): at the end).
ReaderAt(buf, p) ==
  [index_ |-> p + 1, ch_ |-> IF p < Len(buf) THEN buf[p + 1] ELSE 0]
\* The reader has not run past the end-of-input sentinel.
WithinInput(buf, r) == r.index_ <= Len(buf) + 1

(* C11.  For every input Parse terminates; every token the tokenizer        *)
(* produces, from any position of the input, is EndOfInput or leaves the    *)
(* reader strictly further on; and the loops of ReadUnsignedNumeral,        *)
(* ReadWord and SkipParentheses, from any position, stop no later than the  *)
(* end-of-input sentinel.                                                   *)
C11_ParseTerminates ==
  /\ <>(pc = "done")
  /\ [](\A p \in 0..Len(buffer_) :
          LET r == ReaderAt(buffer_, p)
              s == Scan(buffer_, r)
          IN  /\ IsEndOfInput(s.tok) \/ s.in.index_ > r.index_
              /\ WithinInput(buffer_, s.in)
              /\ WithinInput(buffer_, ReadUnsignedNumeral(buffer_, r).in)
              /\ WithinInput(buffer_, ReadWord(buffer_, r, kPrefixLength).in)
              /\ WithinInput(buffer_, SkipParentheses(buffer_, r).in))
  /\ [][in_'.index_ > in_.index_ \/ (in_' = in_ /\ IsEndOfInput(next_'))
          \/ (in_' = in_ /\ next_' = next_)]_vars

\* A parse of a date with an unclosed comment has returned: the comment ran
\* to the end of the input.
C11_Witness ==
  /\ pc = "done" /\ result
  /\ \E p \in 1..Len(buffer_) :
       /\ buffer_[p] = Ord["("]
       /\ SkipParentheses(buffer_, ReaderAt(buffer_, p - 1)).in
            = ReaderAt(buffer_, Len(buffer_))
  /\ Len(taken) > 5

-----------------------------------------------------------------------------
\* The tokens of buf in scan order from the reader r, EndOfInput last.
RECURSIVE TokensFrom(_, _)
TokensFrom(buf, r) ==
  CHOOSE t \in {IF IsEndOfInput(s.tok) THEN <<s.tok>>
                ELSE <<s.tok>> \o TokensFrom(buf, s.in) :
                  s \in {Scan(buf, r)}} : TRUE
TokenStream(buf) == TokensFrom(buf, InputReader(buf))

\* The values of the Number tokens of a sequence of tokens, in order.
RECURSIVE NumbersOf(_)
NumbersOf(toks) ==
  IF toks = <<>> THEN <<>>
  ELSE (IF IsNumber(Head(toks)) THEN <<Head(toks).value_>> ELSE <<>>)
         \o NumbersOf(Tail(toks))
\* The numbers a composer holds, in the order recorded.
Recorded(c) == [i \in 1..c.index_ |-> c.comp_[i - 1]]
\* The composer c2 still holds what c1 held.
KeepsNumbers(c1, c2) ==
  /\ c2.index_ >= c1.index_
  /\ \A i \in 0..(c1.index_ - 1) : c2.comp_[i] = c1.comp_[i]
\* The tokens delivered so far are the first tokens of the input, in order.
TakenInOrder ==
  /\ Len(taken) <= Len(TokenStream(buffer_))
  /\ taken = SubSeq(TokenStream(buffer_), 1, Len(taken))
\* The token in hand is the last one delivered (or the end of the input the
\* strict phase has seen as lookahead).
TokenInHand ==
  \/ taken # <<>> /\ token = taken[Len(taken)]
  \/ /\ IsEndOfInput(token) /\ IsEndOfInput(next_)
     /\ Len(taken) = Len(TokenStream(buffer_)) - 1
\* The strict phase has left without a terminal failure and short of the end.
StrictAborted ==
  pc = "es5_returned" /\ ~IsInvalid(token) /\ ~day.is_iso_date_

(* C12.  When the strict phase aborts without terminal failure it returns   *)
(* the first token it did not handle, and the permissive phase processes    *)
(* that token and then all remaining tokens in input order: the tokens      *)
(* delivered are always the first tokens of the input in scan order, the    *)
(* token in hand is always the last one delivered, every step of the loop   *)
(* moves on to a later token, and the numbers the strict phase accepted     *)
(* (all the numbers before the token it returned) stay recorded in the      *)
(* composers.                                                               *)
C12_StrictPhaseResumes ==
  /\ [](TakenInOrder)
  /\ []((pc \in {"legacy", "write"} \/ StrictAborted) => TokenInHand)
  /\ [](StrictAborted =>
          /\ taken # <<>>
          /\ NumbersOf(SubSeq(taken, 1, Len(taken) - 1)) = Recorded(day)
          /\ time.index_ = 0 /\ tz.hour_ = kNone)
  /\ [][(pc = "legacy" /\ pc' = "legacy")
          => (Len(taken') > Len(taken) /\ Len(taken') <= Len(taken) + 2)]_vars
  /\ [][(pc \in {"es5_returned", "legacy", "write"})
          => (KeepsNumbers(day, day') /\ KeepsNumbers(time, time'))]_vars

\* 2013-1-25: the strict phase recorded the year, skipped the separator and
\* returned the one-digit month; the permissive phase went on from there to
\* the end of the input.
C12_Witness ==
  /\ pc = "write" /\ TokenInHand
  /\ Len(taken) = Len(TokenStream(buffer_)) /\ Len(taken) = 6
  /\ IsSymbolOf(taken[2], Ord["-"])
  /\ IsFixedLengthNumber(taken[3], 1)
  /\ Recorded(day) = <<2013, 1, 25>> /\ ~day.is_iso_date_

-----------------------------------------------------------------------------
\* The number of characters of buf from position i on (1-based) that are
\* all in the set of codes cs.
RECURSIVE RunLength(_, _, _)
RunLength(buf, i, cs) ==
  IF i <= Len(buf) /\ buf[i] \in cs THEN 1 + RunLength(buf, i + 1, cs) ELSE 0
DigitCodes == 48..57
Min(a, b) == IF a < b THEN a ELSE b
\* The reader call name has just been made, from a state it changed.
Called(name) == pc' = name /\ pc \in ReaderPcs

(* C13.  With a maximal run of k decimal digits at the cursor,              *)
(* ReadUnsignedNumeral returns the decimal value of the first min(k, 9)     *)
(* digits, leading zeros among them, hence at most 999999999; it advances   *)
(* the position by exactly k and leaves the cursor on the first non-digit;  *)
(* and the Number token scanned there has the value returned and the digit  *)
(* count k.                                                                 *)
C13_ReadUnsignedNumeral ==
  [][Called("ReadUnsignedNumeral") =>
       LET k == RunLength(buffer_, in_.index_, DigitCodes)
       IN  /\ ret' = ValueOf(buffer_, in_.index_,
                             in_.index_ + Min(k, kMaxSignificantDigits) - 1)
           /\ ret' >= 0 /\ ret' <= 999999999
           /\ in_'.index_ = in_.index_ + k
           /\ in_' = ReaderAt(buffer_, in_.index_ + k - 1)
           /\ in_'.ch_ \notin DigitCodes
           /\ k >= 1 =>
                Scan(buffer_, in_).tok =
                  [tag_ |-> kNumberTag, length_ |-> k, value_ |-> ret']]_vars

\* A numeral of 15 digits has been read as its first 9.
C13_Witness ==
  /\ pc = "ReadUnsignedNumeral" /\ ret = 123456789
  /\ in_.index_ = 16 /\ in_.ch_ = Ord["x"]

-----------------------------------------------------------------------------
\* The position (1-based) of the ')' that brings the nesting depth back to
\* 0, reading buf from position i at the given depth; 0 if there is none.
RECURSIVE MatchingClose(_, _, _)
MatchingClose(buf, i, depth) ==
  IF i > Len(buf) THEN 0
  ELSE IF buf[i] = Ord[")"]
  THEN IF depth = 1 THEN i ELSE MatchingClose(buf, i + 1, depth - 1)
  ELSE IF buf[i] = Ord["("] THEN MatchingClose(buf, i + 1, depth + 1)
  ELSE MatchingClose(buf, i + 1, depth)

\* What SkipParentheses is to do from the reader r of buf: nothing and
\* false off a '(', else true and the cursor right after the matching ')',
\* or at the end of the input if there is none.
SkipParenthesesAsClaimed(buf, r) ==
  IF r.ch_ # Ord["("] THEN [ok |-> FALSE, in |-> r]
  ELSE LET m == MatchingClose(buf, r.index_, 0)
       IN  [ok |-> TRUE,
            in |-> IF m = 0 THEN ReaderAt(buf, Len(buf)) ELSE ReaderAt(buf, m)]

(* C14.  SkipParentheses returns false and consumes nothing when the        *)
(* current character is not '('; otherwise it returns true and leaves the   *)
(* cursor immediately after the ')' that matches the opening '(', nesting   *)
(* respected, or at the end of the input when no ')' matches.               *)
C14_SkipParentheses ==
  [][Called("SkipParentheses") =>
       /\ ret' = SkipParenthesesAsClaimed(buffer_, in_).ok
       /\ in_' = SkipParenthesesAsClaimed(buffer_, in_).in]_vars

\* The same, on the buffers that hold no character 0.
C14_SkipParenthesesNoNul ==
  [][(Called("SkipParentheses") /\ \A i \in 1..Len(buffer_) : buffer_[i] # NUL)
       => /\ ret' = SkipParenthesesAsClaimed(buffer_, in_).ok
          /\ in_' = SkipParenthesesAsClaimed(buffer_, in_).in]_vars

-----------------------------------------------------------------------------
\* The codes of the characters a word is made of: 'A' and above.
WordCodes == {c \in 1..255 : c >= Ord["A"]}
\* The lower-case form of a character.
LowerCase(c) == IF c >= Ord["A"] /\ c <= Ord["Z"] THEN c + 32 ELSE c
\* The prefix buffer of size n for the word of buf at position i (1-based).
PrefixAsClaimed(buf, i, n) ==
  [j \in 0..(n - 1) |->
     IF j < Min(RunLength(buf, i, WordCodes), n) THEN LowerCase(buf[i + j])
     ELSE 0]
\* The words of buf at positions i and j have n characters or more each and
\* agree on the first n, case apart.
AgreeOnPrefix(buf, i, j, n) ==
  /\ RunLength(buf, i, WordCodes) >= n /\ RunLength(buf, j, WordCodes) >= n
  /\ \A k \in 0..(n - 1) : LowerCase(buf[i + k]) = LowerCase(buf[j + k])

(* C17.  ReadWord(prefix, n) consumes the maximal run of characters with    *)
(* code >= 'A', returns its true length L even when L > n, sets prefix[i]   *)
(* to the lower-cased i-th character for i < min(L, n) and to 0 for         *)
(* min(L, n) <= i < n; so two words whose first n characters agree, case    *)
(* apart, give the same prefix buffer.                                      *)
C17_ReadWord ==
  /\ [][Called("ReadWord") =>
          LET n == offered'[1]
              L == RunLength(buffer_, in_.index_, WordCodes)
          IN  /\ ret'.len = L
              /\ in_' = ReaderAt(buffer_, in_.index_ + L - 1)
              /\ in_'.ch_ \notin WordCodes
              /\ ret'.prefix = PrefixAsClaimed(buffer_, in_.index_, n)]_vars
  /\ [](\A i, j \in 1..Len(buffer_) : \A n \in PrefixSizes :
          AgreeOnPrefix(buffer_, i, j, n) =>
            ReadWord(buffer_, ReaderAt(buffer_, i - 1), n).prefix
              = ReadWord(buffer_, ReaderAt(buffer_, j - 1), n).prefix)

\* "DeCade" has been read with a prefix of 3: length 6, prefix "dec", the
\* prefix of the "dec" before it.
C17_Witness ==
  /\ pc = "ReadWord" /\ offered = <<3>> /\ ret.len = 6
  /\ ret.prefix = [j \in 0..2 |-> Codes(<<"d", "e", "c">>)[j + 1]]
  /\ AgreeOnPrefix(buffer_, 1, 5, 3)
  /\ buffer_[1] # buffer_[5]

-----------------------------------------------------------------------------
\* The codes of the whitespace characters.
WhiteSpaceCodes == {c \in 1..255 : IsWhiteSpace(c)}
\* The tokenizer delivers the run of k whitespace characters at the cursor
\* as one Whitespace token of length k.
WhiteSpaceRunIsOneToken ==
  LET k == RunLength(buffer_, in_.index_, WhiteSpaceCodes)
  IN  k >= 1 =>
        Scan(buffer_, in_) = [tok |-> WhiteSpace(k),
                              in |-> ReaderAt(buffer_, in_.index_ + k - 1)]

(* C15, as stated.  A maximal run of k >= 1 whitespace characters is        *)
(* delivered by the tokenizer as a single Whitespace token of length k,     *)
(* the reader's whitespace skip consuming the whole run.                    *)
C15_Original_SkipConsumesRun ==
  /\ [](WhiteSpaceRunIsOneToken)
  /\ [][Called("SkipWhiteSpace") =>
          LET k == RunLength(buffer_, in_.index_, WhiteSpaceCodes)
          IN  /\ ret' = (k >= 1)
              /\ in_' = ReaderAt(buffer_, in_.index_ + k - 1)]_vars

(* C15, amended.  A run of k >= 1 whitespace characters at the cursor of a  *)
(* scan is delivered by the tokenizer as a single Whitespace token of       *)
(* length k; the reader's SkipWhiteSpace consumes exactly one whitespace    *)
(* character per call (and nothing, returning false, off whitespace), so    *)
(* the tokenizer calls it once per character of the run.                    *)
C15_WhiteSpaceRun ==
  /\ [](WhiteSpaceRunIsOneToken)
  /\ [][Called("SkipWhiteSpace") =>
          IF in_.ch_ \in WhiteSpaceCodes
          THEN ret' = TRUE /\ in_' = ReaderAt(buffer_, in_.index_)
          ELSE ret' = FALSE /\ in_' = in_]_vars

\* SkipWhiteSpace has skipped the first of a run of three spaces, two being
\* left, which the tokenizer delivers as one token of length 2.
C15_Witness ==
  /\ pc = "SkipWhiteSpace" /\ ret = TRUE /\ in_.index_ = 2
  /\ RunLength(buffer_, 1, WhiteSpaceCodes) = 3
  /\ Scan(buffer_, in_).tok = WhiteSpace(2)

-----------------------------------------------------------------------------
\* A call of the tokenizer's method name.
TokenizerCalled(name) == pc' = name /\ pc \in TokenizerPcs
\* The i-th token of the input in scan order, the end of input repeating.
ScanOrderToken(i) ==
  LET stream == TokenStream(buffer_) IN stream[Min(i, Len(stream))]

(* C16.  Peek changes nothing of the tokenizer and returns the token the    *)
(* next Next() returns; SkipSymbol(c) consumes one token and returns true   *)
(* exactly when the lookahead is Symbol(c), and otherwise returns false and *)
(* leaves lookahead and reader as they are; whatever the interleaving of    *)
(* Next, Peek and SkipSymbol, the tokens delivered are the tokens of the    *)
(* input in scan order, none skipped and none delivered twice.              *)
C16_PeekAndSkipSymbol ==
  /\ [][TokenizerCalled("DateStringTokenizer::Peek") =>
          /\ in_' = in_ /\ next_' = next_ /\ taken' = taken
          /\ ret' = TokenizerNext(buffer_, scanner').result]_vars
  /\ [][TokenizerCalled("DateStringTokenizer::SkipSymbol") =>
          IF next_ = Symbol(offered'[1])
          THEN /\ ret' = TRUE
               /\ taken' = taken \o <<next_>>
               /\ next_' = ScanOrderToken(Len(taken) + 2)
          ELSE /\ ret' = FALSE
               /\ in_' = in_ /\ next_' = next_ /\ taken' = taken]_vars
  /\ [][TokenizerCalled("DateStringTokenizer::Next") =>
          /\ ret' = next_
          /\ taken' = taken \o <<next_>>]_vars
  /\ [](pc \in TokenizerPcs =>
          /\ \A i \in 1..Len(taken) : taken[i] = ScanOrderToken(i)
          /\ next_ = ScanOrderToken(Len(taken) + 1))

\* The tokens of an input of six tokens or more, symbols and numbers among
\* them, have been delivered up to the end of the input.
C16_Witness ==
  /\ pc = "DateStringTokenizer::Next" /\ IsEndOfInput(ret)
  /\ \E i \in 1..Len(taken) : IsSymbol(taken[i])
  /\ \E i \in 1..Len(taken) : IsNumber(taken[i])
  /\ Len(taken) = Len(TokenStream(buffer_)) /\ Len(taken) >= 6

-----------------------------------------------------------------------------
\* A call of the composer method name from one of the positions pcs.
ComposerCalled(pcs, name) == pc' = name /\ pc \in pcs

(* C18.  After k calls of DayComposer.Add the composer holds the first      *)
(* min(k, 3) values offered, in the order offered; a fourth or later Add    *)
(* returns false and leaves the stored numbers, their count, the named      *)
(* month and the ISO flag as they were.                                     *)
C18_DayAdd ==
  /\ [](pc \in DayPcs =>
          /\ day.index_ = Min(Len(offered), kDaySize)
          /\ \A i \in 1..Min(Len(offered), kDaySize) :
               day.comp_[i - 1] = offered[i])
  /\ [][ComposerCalled(DayPcs, "DayComposer::Add") =>
          IF Len(offered) >= kDaySize
          THEN ret' = FALSE /\ day' = day
          ELSE ret' = TRUE]_vars

\* A fifth number has been refused by a composer that has a named month
\* and the ISO flag.
C18_Witness ==
  /\ pc = "DayComposer::Add" /\ ret = FALSE /\ Len(offered) = 5
  /\ day.named_month_ = 11 /\ day.is_iso_date_
  /\ offered[5] # day.comp_[2]

(* C19.  TimeComposer.Add fills hour, minute, second and millisecond in     *)
(* that order; a successful AddFinal(n) stores n in the next free slot,     *)
(* sets every later slot to 0 and leaves the earlier slots as they were;    *)
(* Add or AddFinal with four slots filled returns false and changes         *)
(* nothing.                                                                 *)
C19_TimeAdd ==
  /\ [][ComposerCalled(TimePcs, "TimeComposer::Add") =>
          LET n == offered'[Len(offered')] IN
          IF time.index_ = kTimeSize
          THEN ret' = FALSE /\ time' = time
          ELSE /\ ret' = TRUE
               /\ time'.index_ = time.index_ + 1
               /\ time'.comp_ = [time.comp_ EXCEPT ![time.index_] = n]
               /\ time'.hour_offset_ = time.hour_offset_]_vars
  /\ [][ComposerCalled(TimePcs, "TimeComposer::AddFinal") =>
          LET n == offered'[Len(offered')] IN
          IF time.index_ = kTimeSize
          THEN ret' = FALSE /\ time' = time
          ELSE /\ ret' = TRUE
               /\ time'.index_ = kTimeSize
               /\ \A i \in 0..(kTimeSize - 1) :
                    time'.comp_[i] = IF i < time.index_ THEN time.comp_[i]
                                     ELSE IF i = time.index_ THEN n
                                     ELSE 0
               /\ time'.hour_offset_ = time.hour_offset_]_vars
  /\ [](pc \in TimePcs => time.index_ \in 0..kTimeSize)

\* AddFinal has stored a minute after an hour and zeroed the two slots
\* after it.
C19_Witness ==
  /\ pc = "TimeComposer::AddFinal" /\ ret = TRUE
  /\ offered = <<7, 59>>
  /\ time.comp_ = [i \in 0..(kTimeSize - 1) |->
                     IF i = 0 THEN 7 ELSE IF i = 1 THEN 59 ELSE 0]

\* An Add has been refused by a full composer.
C19_WitnessFull ==
  /\ pc = "TimeComposer::Add" /\ ret = FALSE /\ Len(offered) = 5
  /\ time.index_ = kTimeSize /\ time.comp_[3] = 7

\* sign * (hour*3600 + minute*60), a minute not given counting 0.
ComposedOffset(z) ==
  z.sign_ * (z.hour_ * 3600
             + (IF z.minute_ = kNone THEN 0 ELSE z.minute_) * 60)

(* C20.  After any sequence of Set, SetSign, SetAbsoluteHour and            *)
(* SetAbsoluteMinute, IsUTC() is true exactly when the composed offset      *)
(* sign * (hour*3600 + minute*60) is zero; Set(h) records sign * hour = h   *)
(* with minute 0; a sign and an hour of 0 with no minute given has offset   *)
(* zero.                                                                    *)
C20_IsUTC ==
  /\ [](pc = "TimeZoneComposer::IsUTC" /\ tz.sign_ # kNone /\ tz.hour_ # kNone
          => (ret = TRUE <=> ComposedOffset(tz) = 0))
  /\ [][ComposerCalled(TzPcs, "TimeZoneComposer::Set") =>
          /\ tz'.sign_ * tz'.hour_ = offered'[1]
          /\ tz'.minute_ = 0]_vars

\* What does hold of IsUTC(): it is true exactly when hour 0 and minute 0
\* have both been recorded.
C20_IsUTCNeedsMinute ==
  /\ [](pc = "TimeZoneComposer::IsUTC"
          => (ret = TRUE <=> tz.hour_ = 0 /\ tz.minute_ = 0))
  /\ [][ComposerCalled(TzPcs, "TimeZoneComposer::Set") =>
          /\ tz'.sign_ * tz'.hour_ = offered'[1]
          /\ tz'.minute_ = 0]_vars

-----------------------------------------------------------------------------
\* The calls of Parse that have returned, the last one included.
Calls == IF pc = "done" THEN Append(offered, Returned) ELSE offered

-----------------------------------------------------------------------------
\* The invocations under way or returned, the stepping one first.
Invocations == <<Objects>> \o other

C22_Interleaved ==
  /\ other # <<>>
  /\ pc = "legacy" /\ day.named_month_ # kNone
  /\ other[1].pc = "es5_zone_hour"

-----------------------------------------------------------------------------
\* position()
position(r) == r.index_

(* C23.  IsEnd() is true exactly when the cursor has moved past the last    *)
(* character of the buffer: while position() <= the buffer's length the     *)
(* reader does not report the end of the input, whatever the buffer holds,  *)
(* a character of code 0 included.                                          *)
C23_IsEnd ==
  pc \in ReaderPcs => (IsEnd(in_) <=> position(in_) > Len(buffer_))

\* The same, on the buffers that hold no character 0.
C23_IsEndNoNul ==
  (pc \in ReaderPcs /\ \A i \in 1..Len(buffer_) : buffer_[i] # NUL)
    => (IsEnd(in_) <=> position(in_) > Len(buffer_))

(* C24.  After construction and after any sequence of Next,                 *)
(* ReadUnsignedNumeral, ReadWord, Skip, SkipWhiteSpace and SkipParentheses  *)
(* calls, position() >= 1, position() never decreases, the current         *)
(* character is buffer[position() - 1] (counting from 0) when position()    *)
(* <= length and 0 otherwise; a Skip or SkipWhiteSpace that returns false   *)
(* leaves position and current character as they were.                      *)
C24_ReaderInvariant ==
  /\ [](pc \in ReaderPcs =>
          /\ position(in_) >= 1
          /\ in_.ch_ = IF position(in_) <= Len(buffer_)
                       THEN buffer_[position(in_)] ELSE 0)
  /\ [][(pc \in ReaderPcs) => position(in_') >= position(in_)]_vars
  /\ [][(Called("Skip") \/ Called("SkipWhiteSpace")) /\ ret' = FALSE
          => in_' = in_]_vars

\* A Skip has been refused in the middle of a buffer, after calls that
\* moved the reader on.
C24_Witness ==
  /\ pc = "Skip" /\ ret = FALSE /\ offered = <<Ord["("]>>
  /\ position(in_) = 4 /\ Len(buffer_) > 4 /\ in_.ch_ = Ord["1"]

-----------------------------------------------------------------------------
\* The tokenizer has the end of the input as its lookahead.
AtEndOfInput == pc \in TokenizerPcs /\ IsEndOfInput(next_)
\* The last call was Next() or Peek().
TokenReturned ==
  pc \in {"DateStringTokenizer::Next", "DateStringTokenizer::Peek"}

(* C25.  EndOfInput is absorbing for the tokenizer: once Next() or Peek()   *)
(* has returned EndOfInput (the lookahead is then EndOfInput), every later  *)
(* Peek() and Next() returns EndOfInput and every SkipSymbol returns false, *)
(* the reader's current character staying at the end sentinel.              *)
C25_EndOfInputAbsorbing ==
  /\ [](TokenReturned /\ IsEndOfInput(ret) => AtEndOfInput /\ in_.ch_ = 0)
  /\ [][AtEndOfInput =>
          /\ IsEndOfInput(next_') /\ in_'.ch_ = 0
          /\ TokenReturned' => IsEndOfInput(ret')
          /\ pc' = "DateStringTokenizer::SkipSymbol" => ret' = FALSE]_vars

\* After Next() has returned EndOfInput twice, a SkipSymbol is refused, on
\* an input whose tokens have all been delivered.
C25_Witness ==
  /\ pc = "DateStringTokenizer::SkipSymbol" /\ ret = FALSE
  /\ EndReads >= 2 /\ Len(taken) >= 5
  /\ in_.index_ = Len(buffer_) + 1

\* The same with the end reported at a character of code 0.
C25_WitnessNul ==
  /\ pc = "DateStringTokenizer::SkipSymbol" /\ ret = FALSE
  /\ EndReads >= 2 /\ in_.index_ <= Len(buffer_)

-----------------------------------------------------------------------------
\* The numbers IsExpecting is asked about.
ExpectArgs == {-1, 0, 59, 60, 999, 1000, kNone}
\* The last call was Add or AddFinal.
TimeAdded == pc \in {"TimeComposer::Add", "TimeComposer::AddFinal"}

(* C26.  In every reachable state of a TimeComposer the fill index is in    *)
(* 0..4, and IsEmpty() holds exactly when no Add or AddFinal has            *)
(* succeeded; after a successful AddFinal every later Add and AddFinal      *)
(* returns false; IsExpecting(n) is false for every n while the composer    *)
(* is empty or full, and is otherwise true exactly when n is in the range   *)
(* of the next free slot: 0..59 for minute and second, 0..999 for           *)
(* millisecond.                                                             *)
C26_TimeComposerInvariant ==
  /\ [](pc \in TimePcs =>
          /\ time.index_ \in 0..kTimeSize
          /\ TimeIsEmpty(time) <=> offered = <<>>
          /\ \A n \in ExpectArgs :
               TimeIsExpecting(time, n) <=>
                 \/ time.index_ \in {1, 2} /\ n >= 0 /\ n <= 59
                 \/ time.index_ = 3 /\ n >= 0 /\ n <= 999)
  /\ [][(pc \in TimePcs) /\ TimeAdded' /\ ret' = TRUE
          => ~TimeIsEmpty(time')]_vars
  /\ [][(pc = "TimeComposer::AddFinal") /\ ret = TRUE
          => time.index_ = kTimeSize /\ (TimeAdded' => ret' = FALSE)]_vars
  /\ [][(pc \in TimePcs) /\ time.index_ = kTimeSize
          => time'.index_ = kTimeSize /\ (TimeAdded' => ret' = FALSE)]_vars

\* The composer holds hour and minute and an am/pm offset: it expects a
\* second, and no more once AddFinal has stored one.
C26_Witness ==
  /\ pc = "TimeComposer::AddFinal" /\ ret = TRUE
  /\ Len(offered) = 3 /\ time.hour_offset_ = 12
  /\ ~TimeIsExpecting(time, 0)
  /\ time.comp_[2] = 59 /\ time.comp_[3] = 0

\* An Add is refused after a successful AddFinal.
C26_WitnessRefused ==
  /\ pc = "TimeComposer::Add" /\ ret = FALSE /\ Len(offered) = 2
  /\ time.index_ = kTimeSize

-----------------------------------------------------------------------------
\* lo <= x <= hi
InRange(x, lo, hi) == lo <= x /\ x <= hi

(* C27.  For every 32-bit integer x and every pair of bounds the composers  *)
(* use (0 <= lo <= hi <= 999), Between(x, lo, hi) evaluated with 32-bit     *)
(* wraparound arithmetic equals lo <= x <= hi (and is what the call         *)
(* returns wherever x - lo does not overflow); negative x and the           *)
(* missing-value marker kNone = kMaxInt are never in range, so that         *)
(* TimeZoneComposer.IsExpecting(n), IsMonth, IsDay, IsHour and IsMinute     *)
(* never accept an unset value.                                             *)
C27_Between ==
  /\ pc = "Between" =>
       LET x == offered[1]
           lo == offered[2]
           hi == offered[3]
       IN  /\ Between(x, lo, hi) <=> InRange(x, lo, hi)
           /\ ~Overflows(x, lo) => (ret <=> InRange(x, lo, hi))
           /\ (x < 0 \/ x = kNone) => ~Between(x, lo, hi)
  /\ pc = "IsMonth" /\ ~Overflows(offered[1], 1)
       => (ret <=> InRange(offered[1], 1, 12))
  /\ pc = "IsDay" /\ ~Overflows(offered[1], 1)
       => (ret <=> InRange(offered[1], 1, 31))
  /\ pc = "IsHour" => (ret <=> InRange(offered[1], 0, 23))
  /\ pc = "IsMinute" => (ret <=> InRange(offered[1], 0, 59))
  /\ pc = "TimeZoneComposer::IsExpecting" =>
       (ret <=> /\ tz.hour_ # kNone /\ tz.minute_ = kNone
                /\ InRange(offered[1], 0, 59))
  /\ pc \in RangePcs \ {"range", "Between"} /\ offered[1] = kNone
       => ret = FALSE

\* Between is evaluated where x - lo wraps around to a large positive int.
C27_Witness ==
  /\ pc = "Between" /\ offered = <<kMinInt, 1, 12>>
  /\ Sub32(kMinInt, 1) = kMaxInt
  /\ ~Between(kMinInt, 1, 12)

\* A composer with an hour and no minute is asked whether it expects the
\* missing-value marker.
C27_WitnessUnset ==
  /\ pc = "TimeZoneComposer::IsExpecting" /\ offered = <<kNone>>
  /\ tz.hour_ = 5 /\ tz.minute_ = kNone /\ ret = FALSE

-----------------------------------------------------------------------------
\* The texts of a sequence of texts, one after the other.
RECURSIVE Concat(_)
Concat(texts) ==
  IF texts = <<>> THEN <<>> ELSE Head(texts) \o Concat(Tail(texts))
\* The buffer of p holds text as a 0-terminated string, pos_ being at its
\* end.
HoldsText(p, text) ==
  /\ p.pos_ = Len(text)
  /\ SubSeq(p.output_, 1, p.pos_ + 1) = Append(text, 0)
\* A turn of the loop of Print that does not return: the buffer grows.
GrowthStep == pc = "Print:loop" /\ pc' = "Print:loop"

(* C28.  After Init() and any sequence of Print(format, ...) calls,         *)
(* 0 <= pos_ < size_ and the buffer holds the concatenation of all text     *)
(* printed since the last Init(); each growth step strictly increases       *)
(* size_, to size_ + size_/2 + 32, and preserves the pos_ bytes already     *)
(* written, so that every Print call terminates; Init() resets pos_ to 0    *)
(* and the output to the empty string without shrinking the buffer.         *)
C28_PrettyPrinterBuffer ==
  /\ [](pc \in {"Init", "Print", "Print:loop"} =>
          0 <= printer.pos_ /\ printer.pos_ < printer.size_)
  /\ [](pc \in {"Init", "Print"} => HoldsText(printer, Concat(Printed)))
  /\ [](pc = "Print:loop" =>
          /\ printer.pos_ + Len(Printed[Len(Printed)]) = Len(Concat(Printed))
          /\ SubSeq(printer.output_, 1, printer.pos_)
               = SubSeq(Concat(Printed), 1, printer.pos_))
  /\ [][GrowthStep =>
          /\ printer'.size_ = printer.size_ + (printer.size_ \div 2) + 32
          /\ printer'.size_ > printer.size_
          /\ printer'.pos_ = printer.pos_
          /\ SubSeq(printer'.output_, 1, printer.pos_)
               = SubSeq(printer.output_, 1, printer.pos_)]_vars
  /\ [][(pc \in PrinterPcs) /\ pc' = "Init" =>
          /\ printer'.pos_ = 0
          /\ HoldsText(printer', <<>>)
          /\ printer'.size_ >= printer.size_
          /\ Len(printer'.output_) = printer'.size_]_vars
  /\ (pc = "Print:loop") ~> (pc = "Print")

\* A Print has returned after its text made the buffer grow twice, text
\* printed before being kept.
C28_Witness ==
  /\ pc = "Print" /\ Len(Printed) = 2
  /\ Len(Printed[1]) = 120 /\ Len(Printed[2]) = 450
  /\ printer.size_ = 656 /\ printer.pos_ = 570

\* Init() has emptied a buffer that had grown.
C28_WitnessInit ==
  /\ pc = "Init" /\ Len(offered) = 2 /\ printer.size_ > initial_size
  /\ printer.pos_ = 0 /\ printer.output_[2] # 0

====
